---------------------------- MODULE Spec2Model ----------------------------
(***************************************************************************)
(* Request fan-out and result aggregation of the SDK tasks:                *)
(*   VectorSearchTask, VectorSearchPartTask  (sdk/vector/vector_search_task.cc)   *)
(*   VectorUpsertTask                        (sdk/vector/vector_upsert_task.cc)   *)
(*   DocumentBatchQueryTask                  (sdk/document/document_batch_query_task.cc) *)
(*                                                                         *)
(* One behaviour runs one task (kind).  Task 0 is the task the caller      *)
(* constructed; tasks 1..MaxParts are the VectorSearchPartTask sub-tasks   *)
(* of a search.  Query indexes are 1-based here (0-based in the code).     *)
(* A code section that runs under the task's write lock is one action;     *)
(* code that touches shared members outside the lock is split at every     *)
(* shared read and write.  The servers and the meta cache are the          *)
(* environment: they keep the contracts of the external interfaces (a      *)
(* successful range scan returns at least one region, a search answer      *)
(* holds one batch result per query vector, a batch-query answer one       *)
(* document per requested id).                                             *)
(***************************************************************************)
EXTENDS Integers, Sequences, FiniteSets, TLC

\* ---------------------------------------------------------------- bounds
MaxParts == 2
MaxRegions == 2
MaxTotalRegions == 2
MaxQueries == 2
MaxCands == 2
MaxTopk == 2
MaxIds == 2
MaxExtra == 2
MaxSeparators == 2
MaxSeparator == 2
MaxPartId == 3
MaxValues == 1

\* ---------------------------------------------------------------- values
OK == "OK"
NODATA == "EDISKANN_IS_NO_DATA"
RpcErrors == {"E1", "E2"}
TopoErrors == {"RangeNotCovered"}
LookupErrors == {"RegionNotFound"}
\* GetVectorIndexById / GetDocumentIndexById may fail with the cache's error.
IndexErrors == {"NotFound"}
InvalidArgument == "InvalidArgument"
\* LangchainExprFactory::CreateExpr may fail on the filter expression.
ExprErrors == {"ExprInvalid"}

Parts == 1..MaxParts
Tasks == 0..MaxParts
RegionIds == 1..(MaxParts * MaxRegions)
RegionId(p, i) == (p - 1) * MaxRegions + i
PartOf(r) == ((r - 1) \div MaxRegions) + 1
Ids == 0..MaxIds
IdRegions == 1..MaxRegions

\* The two query vectors a caller may pass (dimension, value_type, payload).
VecA == [dimension |-> 1, value_type |-> "Float", float_values |-> <<1>>, binary_values |-> <<>>]
VecB == [dimension |-> 1, value_type |-> "Uint8", float_values |-> <<>>, binary_values |-> <<2>>]
QueryVector(v) == [id |-> 0, vector |-> v, scalar_data |-> [k \in {} |-> <<>>]]

\* ---------------------------------------------------------------- helpers
Min(S) == CHOOSE x \in S : \A y \in S : x <= y
SeqToSet(s) == {s[i] : i \in 1..Len(s)}
MapGet(m, k) == IF k \in DOMAIN m THEN m[k] ELSE <<>>
MapPut(m, k, v) == [x \in (DOMAIN m) \cup {k} |-> IF x = k THEN v ELSE m[x]]
EmptyMap == [x \in {} |-> <<>>]

VARIABLES
  kind, pc, init_status,
  target_vectors_, search_param_, part_ids,
  next_part_ids_, status_, sub_tasks_count_, nodata_tasks_count_,
  regions_, search_result_, nodata_region_ids_,
  rpc, nodata_rpc, bf, sub,
  tmp_out_result_, out_result_,
  vectors_, vector_id_to_idx_, doc_ids, doc_ids_, docs, request_ids,
  fired, final, destroyed, returned, errs,
  script, run, prev,
  search_parameter_, rpcs_, nodata_rpcs_,
  codec_in, codec_pb, codec_out

\* A conversion between SDK and wire types, run on its own: the argument,
\* the wire message and the value decoded from it.
codecVars == <<codec_in, codec_pb, codec_out>>
\* The caller's inputs and the environment's script.
callerVars == <<kind, target_vectors_, search_param_, part_ids, vectors_, doc_ids, script>>
inputVars == <<callerVars, codecVars>>
\* The record of an earlier execution.
runVars == <<run, prev>>
\* State of the id-keyed tasks (upsert, batch query).
idVars == <<vector_id_to_idx_, doc_ids_, docs, request_ids>>
\* State of the search part tasks.
partVars == <<nodata_tasks_count_, regions_, search_result_, nodata_region_ids_,
              rpc, nodata_rpc, bf, returned>>
\* State of the search top task.
topVars == <<next_part_ids_, sub, tmp_out_result_, out_result_>>
\* State every task has (Task base).
taskVars == <<pc, init_status, status_, sub_tasks_count_, fired, final, destroyed, errs>>
\* The internal search parameter and the requests of the search rpcs.
requestVars == <<search_parameter_, rpcs_, nodata_rpcs_>>

vars == <<inputVars, runVars, requestVars, idVars, partVars, topVars, taskVars>>

\* ------------------------------------------------ pure steps of the code
IsOk(s) == s = OK

\* "only return first fail status": if (status_.ok()) { status_ = status; }
LatchFirstDropped(cur, s) == cur
LatchFirst(cur, s) == IF IsOk(cur) THEN s ELSE cur

\* sub_tasks_count_.fetch_sub(1) == 1 : the caller saw the counter go 1 -> 0
ObservesLastEveryTime(count) == count >= 1
ObservesLast(count) == count = 1

\* sub_tasks_count_.store(n) for the n rpcs / sub-tasks about to be launched.
FanoutCountLong(n) == n + 1
FanoutCountShort(n) == IF n > 1 THEN n - 1 ELSE n
FanoutCount(n) == n

\* if (!s.ok()) { DoAsyncDone(s); return; } : the status a failed lookup or
\* scan completes the task with.
AbortStatusOk(s) == OK
AbortStatus(s) == s

\* pb::common::VectorWithDistance number k of region r's answer (server side).
CandidatePB(r, k) ==
  [vector_with_id |-> [id |-> 10 * r + k], distance |-> k, metric_type |-> "METRIC_TYPE_L2"]

InternalMetricTypePB2MetricType(m) ==
  CASE m = "METRIC_TYPE_NONE" -> "kNoneMetricType"
    [] m = "METRIC_TYPE_L2" -> "kL2"
    [] m = "METRIC_TYPE_INNER_PRODUCT" -> "kInnerProduct"
    [] m = "METRIC_TYPE_COSINE" -> "kCosine"
    [] m = "METRIC_TYPE_HAMMING" -> "kHamming"

InternalVectorWithDistance2VectorWithDistance(pb) ==
  [vector_data |-> [id |-> pb.vector_with_id.id],
   distance |-> pb.distance,
   metric_type |-> InternalMetricTypePB2MetricType(pb.metric_type)]

\* The index types a searched index may have (vector_index_->GetVectorIndexType()).
IndexTypes == {"kDiskAnn", "kHnsw"}

\* A sub-message of VectorSearchParameter: absent, or present with its fields.
Unset == <<>>

\* A default-constructed pb::common::VectorSearchParameter.
NoParameter ==
  [top_n |-> 0, enable_range_search |-> FALSE, use_brute_force |-> FALSE,
   flat |-> Unset, ivf_flat |-> Unset, ivf_pq |-> Unset, hnsw |-> Unset,
   diskann |-> Unset, binary_flat |-> Unset, binary_ivf_flat |-> Unset]

\* if (extra_params.find(key) != extra_params.end()) pb->set_x(extra_params.at(key));
\* a field that is never set reads as the wire default 0.
SetIfFound(parameter, key) ==
  IF key \in DOMAIN parameter.extra_params THEN parameter.extra_params[key] ELSE 0

FillSearchFlatParamPB(parameter) ==
  <<[parallel_on_queries |-> SetIfFound(parameter, "kParallelOnQueries")]>>

FillSearchIvfFlatParamPBWithoutNprobe(parameter) ==
  <<[nprobe |-> 0,
     parallel_on_queries |-> SetIfFound(parameter, "kParallelOnQueries")]>>
FillSearchIvfFlatParamPB(parameter) ==
  <<[nprobe |-> SetIfFound(parameter, "kNprobe"),
     parallel_on_queries |-> SetIfFound(parameter, "kParallelOnQueries")]>>

FillSearchIvfPqParamPB(parameter) ==
  <<[nprobe |-> SetIfFound(parameter, "kNprobe"),
     parallel_on_queries |-> SetIfFound(parameter, "kParallelOnQueries"),
     recall_num |-> SetIfFound(parameter, "kRecallNum")]>>

FillSearchHnswParamPB(parameter) ==
  <<[efsearch |-> SetIfFound(parameter, "kEfSearch")]>>

FillSearchDiskAnnParamPB(parameter) == <<[beamwidth |-> parameter.beamwidth]>>

FillSearchBinaryFlatParamPB(parameter) ==
  <<[parallel_on_queries |-> SetIfFound(parameter, "kParallelOnQueries")]>>

FillSearchBinaryIvfFlatParamPB(parameter) ==
  <<[nprobe |-> SetIfFound(parameter, "kNprobe"),
     parallel_on_queries |-> SetIfFound(parameter, "kParallelOnQueries")]>>

\* The cases of the switch over the index type; any other type reaches
\* CHECK(false).
SupportedIndexTypes ==
  {"kFlat", "kBruteForce", "kIvfFlat", "kIvfPq", "kHnsw", "kDiskAnn",
   "kBinaryFlat", "kBinaryIvfFlat"}

FillInternalSearchParams(type, parameter) ==
  [top_n |-> parameter.topk,
   enable_range_search |-> parameter.enable_range_search,
   use_brute_force |-> FALSE,
   flat |-> IF type = "kFlat" THEN FillSearchFlatParamPB(parameter) ELSE Unset,
   ivf_flat |-> IF type = "kIvfFlat" THEN FillSearchIvfFlatParamPB(parameter) ELSE Unset,
   ivf_pq |-> IF type = "kIvfPq" THEN FillSearchIvfPqParamPB(parameter) ELSE Unset,
   hnsw |-> IF type = "kHnsw" THEN FillSearchHnswParamPB(parameter) ELSE Unset,
   diskann |-> IF type = "kDiskAnn" THEN FillSearchDiskAnnParamPB(parameter) ELSE Unset,
   binary_flat |-> IF type = "kBinaryFlat" THEN FillSearchBinaryFlatParamPB(parameter)
                   ELSE Unset,
   binary_ivf_flat |-> IF type = "kBinaryIvfFlat"
                         THEN FillSearchBinaryIvfFlatParamPB(parameter) ELSE Unset]

ValueType2InternalValueTypePBAlwaysFloat(value_type) == "FLOAT"
ValueType2InternalValueTypePB(value_type) ==
  CASE value_type = "Float" -> "FLOAT"
    [] value_type = "Uint8" -> "UINT8"
    [] value_type = "Int8" -> "INT8_T"

\* static_cast<char>(uint8_t) and static_cast<uint8_t>(char), char being a
\* signed 8-bit integer.
Uint8ToChar(b) == IF b >= 128 THEN b - 256 ELSE b
CharToUint8(c) == c % 256

\* The scalar types of the SDK and of the wire format.
Type2InternalScalarFieldTypePB(type) ==
  CASE type = "kBOOL" -> "BOOL"
    [] type = "kINT64" -> "INT64"
    [] type = "kDOUBLE" -> "DOUBLE"
    [] type = "kSTRING" -> "STRING"

InternalScalarFieldTypePB2Type(field_type) ==
  CASE field_type = "BOOL" -> "kBOOL"
    [] field_type = "INT64" -> "kINT64"
    [] field_type = "DOUBLE" -> "kDOUBLE"
    [] field_type = "STRING" -> "kSTRING"

\* A default-constructed pb::common::ScalarField and sdk::ScalarField (the
\* members of the latter that have no initializer are indeterminate).
Indeterminate == "indeterminate"
ScalarFieldPB == [bool_data |-> FALSE, long_data |-> 0, double_data |-> 0, string_data |-> ""]
ScalarField ==
  [bool_data |-> Indeterminate, long_data |-> Indeterminate, double_data |-> Indeterminate,
   string_data |-> ""]

\* The switch on the scalar type: the member of `from` the type selects is
\* copied into `to`.
CopyTypedData(type, from, to) ==
  CASE type = "kBOOL" -> [to EXCEPT !.bool_data = from.bool_data]
    [] type = "kINT64" -> [to EXCEPT !.long_data = from.long_data]
    [] type = "kDOUBLE" -> [to EXCEPT !.double_data = from.double_data]
    [] type = "kSTRING" -> [to EXCEPT !.string_data = from.string_data]

ScalarValue2InternalScalarValuePB(scalar_value) ==
  [field_type |-> Type2InternalScalarFieldTypePB(scalar_value.type),
   fields |-> [i \in DOMAIN scalar_value.fields |->
                 CopyTypedData(scalar_value.type, scalar_value.fields[i], ScalarFieldPB)]]

InternalScalarValuePB2ScalarValue(scalar_pb) ==
  LET type == InternalScalarFieldTypePB2Type(scalar_pb.field_type) IN
  [type |-> type,
   fields |-> [i \in DOMAIN scalar_pb.fields |->
                 CopyTypedData(type, scalar_pb.fields[i], ScalarField)]]

\* FillVectorWithIdPB(pb, vector_with_id, with_id): the id is set only when
\* with_id is true; every binary value becomes a one-byte string.
FillVectorWithIdPB(vector_with_id, with_id) ==
  [id |-> IF with_id THEN vector_with_id.id ELSE 0,
   vector |-> [dimension |-> vector_with_id.vector.dimension,
               value_type |-> ValueType2InternalValueTypePB(vector_with_id.vector.value_type),
               float_values |-> vector_with_id.vector.float_values,
               binary_values |-> [i \in DOMAIN vector_with_id.vector.binary_values |->
                                    <<Uint8ToChar(vector_with_id.vector.binary_values[i])>>]],
   scalar_data |-> [key \in DOMAIN vector_with_id.scalar_data |->
                      ScalarValue2InternalScalarValuePB(vector_with_id.scalar_data[key])]]

\* InternalVectorIdPB2VectorWithId(pb).
InternalValueTypePB2ValueType(value_type) ==
  CASE value_type = "UINT8" -> "Uint8"
    [] value_type = "INT8_T" -> "Int8"
    [] value_type = "FLOAT" -> "Float"

InternalVectorIdPB2VectorWithId(vector_id_pb) ==
  [id |-> vector_id_pb.id,
   vector |-> [dimension |-> vector_id_pb.vector.dimension,
               value_type |-> InternalValueTypePB2ValueType(vector_id_pb.vector.value_type),
               float_values |-> vector_id_pb.vector.float_values,
               binary_values |-> [i \in DOMAIN vector_id_pb.vector.binary_values |->
                                    CharToUint8(vector_id_pb.vector.binary_values[i][1])]],
   scalar_data |-> [key \in DOMAIN vector_id_pb.scalar_data |->
                      InternalScalarValuePB2ScalarValue(vector_id_pb.scalar_data[key])]]

\* A VectorSearchRequest to region r: context, parameter and one
\* vector_with_ids entry per target vector.
NoRequest == [region_id |-> 0, parameter |-> NoParameter, vector_with_ids |-> <<>>]
VectorSearchRequestFirstVector(r, parameter, targets) ==
  [region_id |-> r, parameter |-> parameter,
   vector_with_ids |-> [i \in (DOMAIN targets) \cap {1} |-> FillVectorWithIdPB(targets[i], FALSE)]]
VectorSearchRequest(r, parameter, targets) ==
  [region_id |-> r, parameter |-> parameter,
   vector_with_ids |-> [i \in DOMAIN targets |-> FillVectorWithIdPB(targets[i], FALSE)]]

\* paramer = search_parameter_; paramer.clear_diskann(); paramer.set_use_brute_force(true);
BruteForceParameterKeepingDiskAnn(parameter) == [parameter EXCEPT !.use_brute_force = TRUE]
BruteForceParameter(parameter) ==
  [parameter EXCEPT !.diskann = Unset, !.use_brute_force = TRUE]

\* Answer number n of a region to a request carrying nq query vectors: n
\* candidates for the first query and one fewer for each later query, each
\* list in ascending distance.
BatchResults(r, n, nq) ==
  [q \in 1..nq |-> [k \in 1..(IF n >= q THEN n - (q - 1) ELSE 0) |-> CandidatePB(r, k)]]

\* for i in batch_results: for distancepb in batch_results(i): search_result_[i].push_back(..)
AppendBatchResultsReplacing(acc, batch, i) ==
  IF Len(batch[i]) = 0 THEN acc
  ELSE MapPut(acc, i, [k \in 1..Len(batch[i]) |->
                         InternalVectorWithDistance2VectorWithDistance(batch[i][k])])
AppendBatchResults(acc, batch, i) ==
  IF Len(batch[i]) = 0 THEN acc
  ELSE MapPut(acc, i, MapGet(acc, i) \o
                 [k \in 1..Len(batch[i]) |-> InternalVectorWithDistance2VectorWithDistance(batch[i][k])])

RECURSIVE MergeBatchResults(_, _, _)
MergeBatchResults(acc, batch, i) ==
  IF i > Len(batch) THEN acc
  ELSE MergeBatchResults(AppendBatchResults(acc, batch, i), batch, i + 1)

\* SubTaskCallback's merge loop: append the sub-task's list of every key to
\* tmp_out_result_'s list of that key, inserting the key when it is new.
MergeSubResultsTruncated(origin, sub_results) ==
  [k \in (DOMAIN origin) \cup (DOMAIN sub_results) |->
     SubSeq(MapGet(origin, k) \o MapGet(sub_results, k), 1, 1)]
MergeSubResults(origin, sub_results) ==
  [k \in (DOMAIN origin) \cup (DOMAIN sub_results) |->
     MapGet(origin, k) \o MapGet(sub_results, k)]

\* The moved-from lists std::move leaves behind.
MovedFrom(m) == [k \in DOMAIN m |-> <<>>]

\* std::sort(vec, a.distance < b.distance): a permutation of vec in
\* non-descending distance; the order of equal distances is unspecified.
RECURSIVE SortOutcomesOf(_, _)
SortOutcomesOf(vec, idx) ==
  IF idx = {} THEN {<<>>}
  ELSE LET m == Min({vec[i].distance : i \in idx})
       IN UNION {{<<vec[i]>> \o t : t \in SortOutcomesOf(vec, idx \ {i})} :
                  i \in {j \in idx : vec[j].distance = m}}

StdSortSkipped(vec) == {vec}
StdSort(vec) == SortOutcomesOf(vec, DOMAIN vec)

\* if (!enable_range_search && topk > 0 && topk < vec.size()) vec.resize(topk)
MustResizeOffByOne(param, size) ==
  /\ ~param.enable_range_search
  /\ param.topk > 0
  /\ param.topk + 1 < size
MustResize(param, size) ==
  /\ ~param.enable_range_search
  /\ param.topk > 0
  /\ param.topk < size

Resize(param, vec) ==
  IF MustResize(param, Len(vec)) THEN SubSeq(vec, 1, param.topk) ELSE vec

\* The first loop of ConstructResultUnlocked: one SearchResult per target
\* vector, holding a field-by-field copy of the vector.
CopyVector(to_copy) ==
  [dimension |-> to_copy.dimension, value_type |-> to_copy.value_type,
   float_values |-> to_copy.float_values, binary_values |-> to_copy.binary_values]

EchoResults(out, targets) ==
  out \o [i \in 1..Len(targets) |->
            [vector |-> CopyVector(targets[i].vector), vector_datas |-> <<>>]]

\* The sorted maps std::sort may leave in tmp_out_result_.
SortedMaps(m) ==
  {f \in [DOMAIN m -> UNION {StdSort(m[k]) : k \in DOMAIN m}] :
      \A k \in DOMAIN m : f[k] \in StdSort(m[k])}

\* out_result_[idx].vector_datas = std::move(vec_distance), for every key.
StoreResults(out, sorted, param) ==
  [i \in DOMAIN out |->
     IF i \in DOMAIN sorted
       THEN [out[i] EXCEPT !.vector_datas = Resize(param, sorted[i])]
       ELSE out[i]]

\* The index of the first element of ids that repeats an earlier one, or 0.
FirstDuplicate(ids) ==
  LET dups == {i \in 1..Len(ids) : \E j \in 1..(i - 1) : ids[j] = ids[i]}
  IN IF dups = {} THEN 0 ELSE Min(dups)

\* The index of the first element of ids that is <= 0, or 0.
FirstNonPositive(ids) ==
  LET bad == {i \in 1..Len(ids) : ids[i] <= 0}
  IN IF bad = {} THEN 0 ELSE Min(bad)

\* The index of the first doc id the validation loop rejects, or 0.
FirstRejected(ids) ==
  LET bad == {i \in 1..Len(ids) : ids[i] <= 0 \/ \E j \in 1..(i - 1) : ids[j] = ids[i]}
  IN IF bad = {} THEN 0 ELSE Min(bad)

\* vector_id_to_idx_ after inserting the first n vectors.
IdToIdx(ids, n) ==
  [id \in {ids[i] : i \in 1..n} |-> Min({i \in 1..n : ids[i] = id}) - 1]

\* The orders in which an unordered container of the ids in S may be walked.
Orders(S) ==
  {o \in [1..Cardinality(S) -> S] : \A i, j \in 1..Cardinality(S) : o[i] = o[j] => i = j}

\* The ascending walk of a std::set.
RECURSIVE Ascending(_)
Ascending(S) == IF S = {} THEN <<>> ELSE <<Min(S)>> \o Ascending(S \ {Min(S)})

\* region_..._to_ids[region].push_back(id) for the ids walked in `order`, each
\* sent to the region its lookup returned.
RECURSIVE GroupByRegionLast(_, _, _)
GroupByRegionLast(order, lookup, i) ==
  IF i > Len(order) THEN [r \in RegionIds |-> <<>>]
  ELSE LET rest == GroupByRegionLast(order, lookup, i + 1)
       IN [rest EXCEPT ![lookup[order[i]]] = IF @ = <<>> THEN <<order[i]>> ELSE @]
RECURSIVE GroupByRegion(_, _, _)
GroupByRegion(order, lookup, i) ==
  IF i > Len(order) THEN [r \in RegionIds |-> <<>>]
  ELSE LET rest == GroupByRegion(order, lookup, i + 1)
       IN [rest EXCEPT ![lookup[order[i]]] = <<order[i]>> \o @]

PlannedRegions(reqs) == {r \in RegionIds : reqs[r] # <<>>}

\* vector_id_to_idx_.erase(vector.id()) for every vector of the request.
EraseIdsFirstOnly(m, ids) == [id \in (DOMAIN m) \ {Head(ids)} |-> m[id]]
EraseIds(m, ids) == [id \in (DOMAIN m) \ SeqToSet(ids) |-> m[id]]

\* The documents of a response to a request for `ids`: one per requested
\* id, with id 0 where the server has no such document.
ResponseDocuments(ids, found) ==
  [i \in 1..Len(ids) |-> [id |-> IF ids[i] \in found THEN ids[i] ELSE 0]]

\* if (doc_pb.id() > 0) out_result_.docs.emplace_back(...)
SurvivingDocsAll(documents) == documents
RECURSIVE SurvivingDocs(_)
SurvivingDocs(documents) ==
  IF documents = <<>> THEN <<>>
  ELSE (IF Head(documents).id > 0 THEN <<[id |-> Head(documents).id]>> ELSE <<>>)
         \o SurvivingDocs(Tail(documents))

\* The responses a server that does not keep the size contract may send to
\* a request for `ids`: a number of documents other than Len(ids).
MismatchedResponses(ids) ==
  UNION {[1..n -> {[id |-> d] : d \in SeqToSet(ids) \cup {0}}] :
           n \in (0..(Len(ids) + 1)) \ {Len(ids)}}

\* ------------------------------------------------ the environment
\* What a region may answer to a primary search rpc, and to a brute-force one.
Answer(st, n) == [st |-> st, n |-> n]
OkAnswers == {Answer(OK, n) : n \in 0..MaxCands}
PrimaryAnswers == {Answer(NODATA, 0)} \cup {Answer(e, 0) : e \in RpcErrors} \cup OkAnswers
FallbackAnswers == {Answer(e, 0) : e \in RpcErrors \cup {NODATA}} \cup OkAnswers

\* A free environment answers as it likes; a scripted one answers every
\* execution the same way: scan[p] regions for partition p (0: the scan
\* fails), primary[r] and fallback[r] for the rpcs to region r.
NoAnswer == Answer(OK, 0)
FreeScript ==
  [mode |-> "free", scan |-> [p \in Parts |-> 0],
   primary |-> [r \in RegionIds |-> NoAnswer], fallback |-> [r \in RegionIds |-> NoAnswer]]

\* A free environment whose servers, in addition, may answer a batch query
\* with a number of documents other than the number of requested ids.
UncheckedScript == [FreeScript EXCEPT !.mode = "unchecked"]

\* A free environment whose meta cache, in addition, may find no region
\* between the keys of a partition range and say OK.
EmptyScanScript == [FreeScript EXCEPT !.mode = "emptyscan"]

\* A free environment whose servers, in addition, may answer a search with
\* more batch_results than the request has vectors.
OversizedScript == [FreeScript EXCEPT !.mode = "oversized"]

ScriptedFallbacks == {Answer(OK, 1), Answer("E1", 0)}

ScanPlans(parts) ==
  {sc \in [Parts -> 0..MaxRegions] :
     /\ \A p \in Parts \ parts : sc[p] = 0
     /\ Cardinality({r \in RegionIds : \E p \in parts : \E i \in 1..sc[p] : r = RegionId(p, i)})
          <= MaxTotalRegions}

ScriptedRegions(sc) == {r \in RegionIds : \E p \in Parts : \E i \in 1..sc[p] : r = RegionId(p, i)}

Scripts(parts) ==
  UNION {
    UNION {
      {[mode |-> "fixed", scan |-> sc,
        primary |-> [r \in RegionIds |-> IF r \in ScriptedRegions(sc) THEN pr[r] ELSE NoAnswer],
        fallback |-> [r \in RegionIds |-> IF r \in DOMAIN fb THEN fb[r] ELSE NoAnswer]] :
         fb \in [{r \in ScriptedRegions(sc) : pr[r].st = NODATA} -> ScriptedFallbacks]} :
      pr \in [ScriptedRegions(sc) -> PrimaryAnswers]} :
    sc \in ScanPlans(parts)}

RegionsPlanned == Cardinality(UNION {SeqToSet(regions_[p]) : p \in Parts})

\* What ScanRegionsBetweenContinuousRange may hand back for partition p: an
\* error, or the regions covering the partition range, in key order.
ScanRegions(p, n) == [i \in 1..n |-> RegionId(p, i)]
ScanOutcomes(p) ==
  IF script.mode # "fixed"
    THEN {[st |-> e, regs |-> <<>>] : e \in TopoErrors} \cup
         {[st |-> OK, regs |-> ScanRegions(p, n)] :
            n \in {m \in (IF script.mode = "emptyscan" THEN 0 ELSE 1)..MaxRegions :
                     RegionsPlanned + m <= MaxTotalRegions}}
    ELSE IF script.scan[p] = 0
      THEN {[st |-> e, regs |-> <<>>] : e \in TopoErrors}
      ELSE {[st |-> OK, regs |-> ScanRegions(p, script.scan[p])]}

PrimaryOutcomes(r) == IF script.mode # "fixed" THEN PrimaryAnswers ELSE {script.primary[r]}
FallbackOutcomes(r) == IF script.mode # "fixed" THEN FallbackAnswers ELSE {script.fallback[r]}

\* ------------------------------------------------ state after construction
NoRpc == [pc |-> "none", st |-> OK, snap |-> <<>>]
NoSub == [pc |-> "none", st |-> OK]
NoBf == [pc |-> "none", i |-> 0]
AtCreated == [at |-> "created", part |-> 0, i |-> 0]
AtReady == [at |-> "ready", part |-> 0, i |-> 0]
AtRejected == [at |-> "rejected", part |-> 0, i |-> 0]
AtReturned == [at |-> "returned", part |-> 0, i |-> 0]
AtLaunch == [at |-> "launch", part |-> 0, i |-> 0]
\* A failed CHECK has aborted the process: no thread takes another step.
AtAborted == [at |-> "aborted", part |-> 0, i |-> 0]
NoPrev == [status |-> "none", out_result |-> <<>>]

\* The target vectors a caller may pass: none, or up to MaxQueries of them.
TargetChoices ==
  {[i \in 1..n |-> QueryVector(IF i % 2 = 1 THEN VecA ELSE VecB)] : n \in 0..MaxQueries}

\* The SearchParam fields the result construction reads.
SearchParams ==
  {sp \in [topk : 0..MaxTopk, enable_range_search : BOOLEAN,
           beamwidth : {2}, extra_params : {EmptyMap}] :
      sp.enable_range_search => sp.topk = 1}

\* The id sequences a caller may pass: any ids, valid or not.
IdInputs == UNION {[1..n -> Ids] : n \in 0..MaxIds}

Fresh ==
  [pc |-> AtCreated, init_status |-> "none",
   next_part_ids_ |-> {},
   status_ |-> [t \in Tasks |-> OK],
   sub_tasks_count_ |-> [t \in Tasks |-> 0],
   nodata_tasks_count_ |-> [p \in Parts |-> 0],
   regions_ |-> [p \in Parts |-> <<>>],
   search_result_ |-> [p \in Parts |-> EmptyMap],
   nodata_region_ids_ |-> [p \in Parts |-> <<>>],
   rpc |-> [r \in RegionIds |-> NoRpc],
   nodata_rpc |-> [r \in RegionIds |-> NoRpc],
   bf |-> [p \in Parts |-> NoBf],
   sub |-> [p \in Parts |-> NoSub],
   tmp_out_result_ |-> EmptyMap,
   out_result_ |-> <<>>,
   vector_id_to_idx_ |-> EmptyMap,
   doc_ids_ |-> {},
   docs |-> <<>>,
   request_ids |-> [r \in RegionIds |-> <<>>],
   fired |-> [t \in Tasks |-> 0],
   final |-> [t \in Tasks |-> OK],
   destroyed |-> [t \in Tasks |-> FALSE],
   returned |-> [r \in RegionIds |-> <<>>],
   errs |-> [t \in Tasks |-> {}],
   search_parameter_ |-> NoParameter,
   rpcs_ |-> [r \in RegionIds |-> NoRequest],
   nodata_rpcs_ |-> [r \in RegionIds |-> NoRequest]]

\* No conversion is run on its own.
NoConversion ==
  /\ codec_in = Unset
  /\ codec_pb = Unset
  /\ codec_out = Unset

InitCommon ==
  /\ pc = Fresh.pc
  /\ init_status = Fresh.init_status
  /\ next_part_ids_ = Fresh.next_part_ids_
  /\ status_ = Fresh.status_
  /\ sub_tasks_count_ = Fresh.sub_tasks_count_
  /\ nodata_tasks_count_ = Fresh.nodata_tasks_count_
  /\ regions_ = Fresh.regions_
  /\ search_result_ = Fresh.search_result_
  /\ nodata_region_ids_ = Fresh.nodata_region_ids_
  /\ rpc = Fresh.rpc
  /\ nodata_rpc = Fresh.nodata_rpc
  /\ bf = Fresh.bf
  /\ sub = Fresh.sub
  /\ tmp_out_result_ = Fresh.tmp_out_result_
  /\ out_result_ = Fresh.out_result_
  /\ vector_id_to_idx_ = Fresh.vector_id_to_idx_
  /\ doc_ids_ = Fresh.doc_ids_
  /\ docs = Fresh.docs
  /\ request_ids = Fresh.request_ids
  /\ fired = Fresh.fired
  /\ final = Fresh.final
  /\ destroyed = Fresh.destroyed
  /\ returned = Fresh.returned
  /\ errs = Fresh.errs
  /\ search_parameter_ = Fresh.search_parameter_
  /\ rpcs_ = Fresh.rpcs_
  /\ nodata_rpcs_ = Fresh.nodata_rpcs_
  /\ run = 1
  /\ prev = NoPrev

NoSearchInputs ==
  /\ target_vectors_ = <<>>
  /\ search_param_ = [topk |-> 0, enable_range_search |-> FALSE,
                      beamwidth |-> 2, extra_params |-> EmptyMap]
  /\ part_ids = {}

InitSearch ==
  /\ kind = "search"
  /\ target_vectors_ \in TargetChoices
  /\ search_param_ \in SearchParams
  /\ part_ids \in SUBSET Parts
  /\ vectors_ = <<>>
  /\ doc_ids = <<>>
  /\ script = FreeScript
  /\ InitCommon
  /\ NoConversion

InitUpsert ==
  /\ kind = "upsert"
  /\ vectors_ \in IdInputs
  /\ doc_ids = <<>>
  /\ NoSearchInputs
  /\ script = FreeScript
  /\ InitCommon
  /\ NoConversion

InitBatch ==
  /\ kind = "batch"
  /\ doc_ids \in IdInputs
  /\ vectors_ = <<>>
  /\ NoSearchInputs
  /\ script = FreeScript
  /\ InitCommon
  /\ NoConversion

\* ------------------------------------------------ completion (Task base)
\* Task::DoAsyncDone(status) of the caller's task: the completion callback
\* runs with `status`.
DoAsyncDone(s) ==
  /\ fired' = [fired EXCEPT ![0] = @ + 1]
  /\ final' = [final EXCEPT ![0] = s]

\* Task::DoAsyncDone(status) of part task p: its completion callback is the
\* lambda of VectorSearchTask::DoAsync, i.e. SubTaskCallback(status, p).
PartDoAsyncDone(p, s) ==
  /\ fired' = [fired EXCEPT ![p] = @ + 1]
  /\ final' = [final EXCEPT ![p] = s]
  /\ sub' = [sub EXCEPT ![p] = [pc |-> "called", st |-> s]]

\* The tasks in ts are deleted (delete sub_task; the caller's task after its
\* completion callback).
Release(ts) == destroyed' = [t \in Tasks |-> destroyed[t] \/ t \in ts]

\* ------------------------------------------------ VectorSearchTask
\* if (target_vectors_.empty()) return Status::InvalidArgument(...)
TargetsCheckSkipped(targets) == OK
TargetsCheck(targets) == IF targets = <<>> THEN InvalidArgument ELSE OK

\* Init returns at the empty check, at the index lookup, at the compilation
\* of a filter expression the caller passed (after next_part_ids_ and
\* search_parameter_ were filled), or at its end.
SearchInit ==
  /\ kind = "search"
  /\ pc.at = "created"
  /\ \/ /\ ~IsOk(TargetsCheck(target_vectors_))
        /\ pc' = AtRejected
        /\ init_status' = TargetsCheck(target_vectors_)
        /\ UNCHANGED <<next_part_ids_, search_parameter_>>
     \/ /\ IsOk(TargetsCheck(target_vectors_))
        /\ \E e \in IndexErrors :
             /\ pc' = AtRejected
             /\ init_status' = e
             /\ UNCHANGED <<next_part_ids_, search_parameter_>>
     \/ /\ IsOk(TargetsCheck(target_vectors_))
        /\ \E e \in ExprErrors \cup {OK} :
             /\ pc' = IF IsOk(e) THEN AtReady ELSE AtRejected
             /\ init_status' = e
        /\ next_part_ids_' = part_ids
        /\ \E type \in IndexTypes :
             search_parameter_' = FillInternalSearchParams(type, search_param_)
  /\ UNCHANGED <<inputVars, runVars, idVars, partVars>>
  /\ UNCHANGED <<rpcs_, nodata_rpcs_>>
  /\ UNCHANGED <<sub, tmp_out_result_, out_result_>>
  /\ UNCHANGED <<status_, sub_tasks_count_, fired, final, destroyed, errs>>

\* The range-based for over the local copy of next_part_ids_ (a std::set).
NextPartPc(parts, p) ==
  IF \E x \in parts : x > p
    THEN [at |-> "part", part |-> Min({x \in parts : x > p}), i |-> 0]
    ELSE AtReturned

SearchDoAsync ==
  /\ kind = "search"
  /\ pc.at = "ready"
  /\ status_' = [status_ EXCEPT ![0] = OK]
  /\ IF next_part_ids_ = {}
       THEN /\ DoAsyncDone(OK)
            /\ Release({0})
            /\ pc' = AtReturned
            /\ UNCHANGED sub_tasks_count_
       ELSE /\ sub_tasks_count_' =
                 [sub_tasks_count_ EXCEPT ![0] = FanoutCount(Cardinality(next_part_ids_))]
            /\ pc' = NextPartPc(next_part_ids_, 0)
            /\ UNCHANGED <<fired, final, destroyed>>
  /\ UNCHANGED <<inputVars, runVars, requestVars, idVars, partVars, topVars>>
  /\ UNCHANGED <<init_status, errs>>

\* ------------------------------------------------ VectorSearchPartTask
\* AsyncRun of part task p on the caller's thread: DoAsync up to the store
\* of sub_tasks_count_ (no rpc of p is in flight before that).
PartDoAsync(p) ==
  /\ kind = "search"
  /\ pc.at = "part" /\ pc.part = p
  /\ \E o \in ScanOutcomes(p) :
       IF ~IsOk(o.st)
         THEN /\ PartDoAsyncDone(p, AbortStatus(o.st))
              /\ pc' = [pc EXCEPT !.at = "insub"]
              /\ UNCHANGED <<regions_, search_result_, status_, sub_tasks_count_,
                             nodata_region_ids_, rpcs_>>
         ELSE /\ regions_' = [regions_ EXCEPT ![p] = o.regs]
              /\ search_result_' = [search_result_ EXCEPT ![p] = EmptyMap]
              /\ status_' = [status_ EXCEPT ![p] = OK]
              /\ nodata_region_ids_' = [nodata_region_ids_ EXCEPT ![p] = <<>>]
              /\ sub_tasks_count_' = [sub_tasks_count_ EXCEPT ![p] = FanoutCount(Len(o.regs))]
              /\ rpcs_' = [r \in RegionIds |->
                              IF r \in SeqToSet(o.regs)
                                THEN VectorSearchRequest(r, search_parameter_, target_vectors_)
                                ELSE rpcs_[r]]
              /\ pc' = IF o.regs = <<>> THEN [pc EXCEPT !.at = "loopexit"]
                                         ELSE [pc EXCEPT !.at = "launch", !.i = 1]
              /\ UNCHANGED <<fired, final, sub>>
  /\ UNCHANGED <<inputVars, runVars, idVars>>
  /\ UNCHANGED <<search_parameter_, nodata_rpcs_>>
  /\ UNCHANGED <<nodata_tasks_count_, rpc, nodata_rpc, bf, returned>>
  /\ UNCHANGED <<next_part_ids_, tmp_out_result_, out_result_>>
  /\ UNCHANGED <<init_status, destroyed, errs>>

\* controller.AsyncCall(... VectorSearchRpcCallback ...) for regions_[i].
PartLaunch(p) ==
  /\ kind = "search"
  /\ pc.at = "launch" /\ pc.part = p
  /\ pc.i <= Len(regions_[p])
  /\ rpc' = [rpc EXCEPT ![regions_[p][pc.i]] = [NoRpc EXCEPT !.pc = "inflight"]]
  /\ pc' = IF pc.i < Len(regions_[p]) THEN [pc EXCEPT !.i = @ + 1]
                                      ELSE [pc EXCEPT !.at = "loopexit"]
  /\ UNCHANGED <<inputVars, runVars, requestVars, idVars, topVars>>
  /\ UNCHANGED <<nodata_tasks_count_, regions_, search_result_, nodata_region_ids_,
                 nodata_rpc, bf, returned>>
  /\ UNCHANGED <<init_status, status_, sub_tasks_count_, fired, final, destroyed, errs>>

\* The loop condition i < regions_.size() after the last AsyncCall; DoAsync
\* of p returns and the caller's loop goes to the next partition.
PartLaunchExit(p) ==
  /\ kind = "search"
  /\ pc.at = "loopexit" /\ pc.part = p
  /\ pc' = NextPartPc(part_ids, p)
  /\ UNCHANGED <<inputVars, runVars, requestVars, idVars, partVars, topVars>>
  /\ UNCHANGED <<init_status, status_, sub_tasks_count_, fired, final, destroyed, errs>>

\* VectorSearchPartTask::Done: snapshot status_ and complete.
DoneWithOk(p) == PartDoAsyncDone(p, OK)
Done(p) == PartDoAsyncDone(p, status_[p])

\* VectorSearchPartTask::SearchByBruteForce up to the store of
\* nodata_tasks_count_: one rpc per entry of nodata_region_ids_.
SearchByBruteForce(p) ==
  /\ nodata_tasks_count_' =
       [nodata_tasks_count_ EXCEPT ![p] = FanoutCount(Len(nodata_region_ids_[p]))]
  /\ bf' = [bf EXCEPT ![p] = [pc |-> "launch", i |-> 1]]
  /\ nodata_rpcs_' = [r \in RegionIds |->
                         IF r \in SeqToSet(nodata_region_ids_[p])
                           THEN VectorSearchRequest(r, BruteForceParameter(search_parameter_),
                                                    target_vectors_)
                           ELSE nodata_rpcs_[r]]
  /\ UNCHANGED search_parameter_

\* nodata_region_ids_.push_back(region_id) on the vector as the thread read it.
PushBackTwice(vec, region_id) == vec \o <<region_id, region_id>>
PushBack(vec, region_id) == Append(vec, region_id)

\* region_id_to_region_index_[region->RegionId()] = i, for every i.
RegionIdToRegionIndex(regions) ==
  [id \in SeqToSet(regions) |-> CHOOSE i \in DOMAIN regions :
                                  regions[i] = id /\ \A j \in DOMAIN regions : regions[j] = id => j <= i]

\* CHECK(region_id_to_region_index_.find(region_id) != end()) of
\* SearchByBruteForce fails for some entry of nodata_region_ids_.
IndexCheckFails(p) ==
  \E id \in SeqToSet(nodata_region_ids_[p]) : id \notin DOMAIN RegionIdToRegionIndex(regions_[p])

\* VectorSearchPartTask::CheckNoDataRegion.
NeedsFallbackAnyStatus(st, nodata) == nodata # <<>>
NeedsFallback(st, nodata) == IsOk(st) /\ nodata # <<>>

CheckNoDataRegion(p) ==
  IF NeedsFallback(status_[p], nodata_region_ids_[p])
    THEN /\ SearchByBruteForce(p)
         /\ UNCHANGED <<fired, final, sub>>
    ELSE /\ Done(p)
         /\ UNCHANGED <<nodata_tasks_count_, bf, nodata_rpcs_, search_parameter_>>

\* batch_results_size() of a successful answer: vector_with_ids_size() of the
\* request, or one more from a server that breaks the size contract.
BatchResultsSizes ==
  IF script.mode = "oversized" THEN {Len(target_vectors_), Len(target_vectors_) + 1}
  ELSE {Len(target_vectors_)}

\* The converted batch_results of an answer, kept for reference.
Converted(batch) ==
  [q \in DOMAIN batch |->
     [k \in DOMAIN batch[q] |-> InternalVectorWithDistance2VectorWithDistance(batch[q][k])]]

\* The write-locked merge loop of both search callbacks.
MergeResponse(p, r, n) ==
  \E size \in BatchResultsSizes :
    LET batch == BatchResults(r, n, size) IN
    /\ search_result_' = [search_result_ EXCEPT ![p] = MergeBatchResults(@, batch, 1)]
    /\ returned' = [returned EXCEPT ![r] = Converted(batch)]

\* VectorSearchRpcCallback(status, rpc) of region r, up to its first access
\* to shared state: the nodata branch reads nodata_region_ids_ and the error
\* branch tests status_.ok(), both without the lock; the success branch
\* merges under the write lock.
VectorSearchRpcCallback(r) ==
  LET p == PartOf(r) IN
  /\ kind = "search"
  /\ rpc[r].pc = "inflight"
  /\ \E o \in PrimaryOutcomes(r) :
       IF o.st = NODATA
         THEN /\ rpc' = [rpc EXCEPT ![r] =
                           [pc |-> "push", st |-> OK, snap |-> nodata_region_ids_[p]]]
              /\ UNCHANGED <<search_result_, returned, errs>>
       ELSE IF ~IsOk(o.st)
         THEN /\ rpc' = [rpc EXCEPT ![r] =
                           IF IsOk(status_[p])
                             THEN [pc |-> "chk", st |-> o.st, snap |-> <<>>]
                             ELSE [NoRpc EXCEPT !.pc = "merged"]]
              /\ errs' = [errs EXCEPT ![p] = @ \cup {o.st}]
              /\ UNCHANGED <<search_result_, returned>>
         ELSE /\ rpc' = [rpc EXCEPT ![r] = [NoRpc EXCEPT !.pc = "merged"]]
              /\ MergeResponse(p, r, o.n)
              /\ UNCHANGED errs
  /\ UNCHANGED <<inputVars, runVars, requestVars, idVars, topVars>>
  /\ UNCHANGED <<nodata_tasks_count_, regions_, nodata_region_ids_, nodata_rpc, bf>>
  /\ UNCHANGED <<pc, init_status, status_, sub_tasks_count_, fired, final, destroyed>>

\* nodata_region_ids_.push_back(region_id): the store that ends the
\* unsynchronised push_back, from the vector as this thread read it.
PrimaryPushNodata(r) ==
  LET p == PartOf(r) IN
  /\ kind = "search"
  /\ rpc[r].pc = "push"
  /\ nodata_region_ids_' =
       [nodata_region_ids_ EXCEPT ![p] = PushBack(rpc[r].snap, rpcs_[r].region_id)]
  /\ rpc' = [rpc EXCEPT ![r] = [NoRpc EXCEPT !.pc = "merged"]]
  /\ UNCHANGED <<inputVars, runVars, requestVars, idVars, topVars, taskVars>>
  /\ UNCHANGED <<nodata_tasks_count_, regions_, search_result_, nodata_rpc, bf, returned>>

\* { WriteLockGuard guard(rw_lock_); status_ = status; } after the test.
PrimaryLatch(r) ==
  LET p == PartOf(r) IN
  /\ kind = "search"
  /\ rpc[r].pc = "chk"
  /\ status_' = [status_ EXCEPT ![p] = rpc[r].st]
  /\ rpc' = [rpc EXCEPT ![r] = [NoRpc EXCEPT !.pc = "merged"]]
  /\ UNCHANGED <<inputVars, runVars, requestVars, idVars, topVars>>
  /\ UNCHANGED <<nodata_tasks_count_, regions_, search_result_, nodata_region_ids_,
                 nodata_rpc, bf, returned>>
  /\ UNCHANGED <<pc, init_status, sub_tasks_count_, fired, final, destroyed, errs>>

\* if (sub_tasks_count_.fetch_sub(1) == 1) CheckNoDataRegion();
PrimaryFetchSub(r) ==
  LET p == PartOf(r) IN
  /\ kind = "search"
  /\ rpc[r].pc = "merged"
  /\ ~(ObservesLast(sub_tasks_count_[p]) /\ NeedsFallback(status_[p], nodata_region_ids_[p])
        /\ IndexCheckFails(p))
  /\ rpc' = [rpc EXCEPT ![r] = [NoRpc EXCEPT !.pc = "done"]]
  /\ sub_tasks_count_' = [sub_tasks_count_ EXCEPT ![p] = @ - 1]
  /\ IF ObservesLast(sub_tasks_count_[p])
       THEN CheckNoDataRegion(p)
       ELSE UNCHANGED <<nodata_tasks_count_, bf, fired, final, sub, nodata_rpcs_,
                        search_parameter_>>
  /\ UNCHANGED <<inputVars, runVars, idVars>>
  /\ UNCHANGED rpcs_
  /\ UNCHANGED <<regions_, search_result_, nodata_region_ids_, nodata_rpc, returned>>
  /\ UNCHANGED <<next_part_ids_, tmp_out_result_, out_result_>>
  /\ UNCHANGED <<pc, init_status, status_, destroyed, errs>>

\* The last primary callback when SearchByBruteForce meets an entry of
\* nodata_region_ids_ that has no index: the CHECK ends the process.
RegionIndexCheckFails(r) ==
  LET p == PartOf(r) IN
  /\ kind = "search"
  /\ rpc[r].pc = "merged"
  /\ ObservesLast(sub_tasks_count_[p])
  /\ NeedsFallback(status_[p], nodata_region_ids_[p])
  /\ IndexCheckFails(p)
  /\ rpc' = [rpc EXCEPT ![r] = [NoRpc EXCEPT !.pc = "aborted"]]
  /\ sub_tasks_count_' = [sub_tasks_count_ EXCEPT ![p] = @ - 1]
  /\ pc' = AtAborted
  /\ UNCHANGED <<inputVars, runVars, requestVars, idVars, topVars>>
  /\ UNCHANGED <<nodata_tasks_count_, regions_, search_result_, nodata_region_ids_,
                 nodata_rpc, bf, returned>>
  /\ UNCHANGED <<init_status, status_, fired, final, destroyed, errs>>

\* Another outcome of two unsynchronised push_back calls: this thread
\* writes its element where it read the end of the vector, then advances
\* the end the other thread has advanced already; the slot it leaves
\* behind was never written and holds no region id of the part task.
PrimaryPushNodataTorn(r) ==
  LET p == PartOf(r) IN
  /\ kind = "search"
  /\ rpc[r].pc = "push"
  /\ nodata_region_ids_[p] # rpc[r].snap
  /\ \E garbage \in ({0} \cup RegionIds) \ SeqToSet(regions_[p]) :
       nodata_region_ids_' =
         [nodata_region_ids_ EXCEPT ![p] =
            PushBack(PushBack(rpc[r].snap, rpcs_[r].region_id), garbage)]
  /\ rpc' = [rpc EXCEPT ![r] = [NoRpc EXCEPT !.pc = "merged"]]
  /\ UNCHANGED <<inputVars, runVars, requestVars, idVars, topVars, taskVars>>
  /\ UNCHANGED <<nodata_tasks_count_, regions_, search_result_, nodata_rpc, bf, returned>>

\* controller.AsyncCall(... NodataRegionRpcCallback ...) for nodata region i.
BruteForceLaunch(p) ==
  /\ bf[p].pc = "launch"
  /\ bf[p].i <= Len(nodata_region_ids_[p])
  /\ nodata_rpc' = [nodata_rpc EXCEPT ![nodata_region_ids_[p][bf[p].i]] =
                      [NoRpc EXCEPT !.pc = "inflight"]]
  /\ bf' = [bf EXCEPT ![p] = IF @.i < Len(nodata_region_ids_[p])
                               THEN [@ EXCEPT !.i = @ + 1]
                               ELSE [@ EXCEPT !.pc = "loopexit"]]
  /\ UNCHANGED <<inputVars, runVars, requestVars, idVars, topVars, taskVars>>
  /\ UNCHANGED <<nodata_tasks_count_, regions_, search_result_, nodata_region_ids_,
                 rpc, returned>>

\* The loop condition i < nodata_region_ids_.size() after the last AsyncCall.
BruteForceLaunchExit(p) ==
  /\ bf[p].pc = "loopexit"
  /\ bf' = [bf EXCEPT ![p] = [@ EXCEPT !.pc = "done"]]
  /\ UNCHANGED <<inputVars, runVars, requestVars, idVars, topVars, taskVars>>
  /\ UNCHANGED <<nodata_tasks_count_, regions_, search_result_, nodata_region_ids_,
                 rpc, nodata_rpc, returned>>

\* NodataRegionRpcCallback(status, rpc) of region r up to its first access to
\* shared state: every failure tests status_.ok() without the lock.
NodataRegionRpcCallback(r) ==
  LET p == PartOf(r) IN
  /\ nodata_rpc[r].pc = "inflight"
  /\ \E o \in FallbackOutcomes(r) :
       IF ~IsOk(o.st)
         THEN /\ nodata_rpc' = [nodata_rpc EXCEPT ![r] =
                                  IF IsOk(status_[p])
                                    THEN [pc |-> "chk", st |-> o.st, snap |-> <<>>]
                                    ELSE [NoRpc EXCEPT !.pc = "merged"]]
              /\ errs' = [errs EXCEPT ![p] = @ \cup {o.st}]
              /\ UNCHANGED <<search_result_, returned>>
         ELSE /\ nodata_rpc' = [nodata_rpc EXCEPT ![r] = [NoRpc EXCEPT !.pc = "merged"]]
              /\ MergeResponse(p, r, o.n)
              /\ UNCHANGED errs
  /\ UNCHANGED <<inputVars, runVars, requestVars, idVars, topVars>>
  /\ UNCHANGED <<nodata_tasks_count_, regions_, nodata_region_ids_, rpc, bf>>
  /\ UNCHANGED <<pc, init_status, status_, sub_tasks_count_, fired, final, destroyed>>

NodataLatch(r) ==
  LET p == PartOf(r) IN
  /\ nodata_rpc[r].pc = "chk"
  /\ status_' = [status_ EXCEPT ![p] = nodata_rpc[r].st]
  /\ nodata_rpc' = [nodata_rpc EXCEPT ![r] = [NoRpc EXCEPT !.pc = "merged"]]
  /\ UNCHANGED <<inputVars, runVars, requestVars, idVars, topVars>>
  /\ UNCHANGED <<nodata_tasks_count_, regions_, search_result_, nodata_region_ids_,
                 rpc, bf, returned>>
  /\ UNCHANGED <<pc, init_status, sub_tasks_count_, fired, final, destroyed, errs>>

\* if (nodata_tasks_count_.fetch_sub(1) == 1) Done();
NodataFetchSub(r) ==
  LET p == PartOf(r) IN
  /\ nodata_rpc[r].pc = "merged"
  /\ nodata_rpc' = [nodata_rpc EXCEPT ![r] = [NoRpc EXCEPT !.pc = "done"]]
  /\ nodata_tasks_count_' = [nodata_tasks_count_ EXCEPT ![p] = @ - 1]
  /\ IF ObservesLast(nodata_tasks_count_[p])
       THEN Done(p)
       ELSE UNCHANGED <<fired, final, sub>>
  /\ UNCHANGED <<inputVars, runVars, requestVars, idVars>>
  /\ UNCHANGED <<regions_, search_result_, nodata_region_ids_, rpc, bf, returned>>
  /\ UNCHANGED <<next_part_ids_, tmp_out_result_, out_result_>>
  /\ UNCHANGED <<pc, init_status, status_, sub_tasks_count_, destroyed, errs>>

\* ------------------------------------------------ VectorSearchTask fan-in
\* SubTaskCallback(status, sub_task) up to the end of its write-locked
\* section: latch the first failure, or merge and erase the part id.
SubTaskCallbackMerge(p) ==
  /\ sub[p].pc = "called"
  /\ IF ~IsOk(sub[p].st)
       THEN /\ status_' = [status_ EXCEPT ![0] = LatchFirst(@, sub[p].st)]
            /\ errs' = [errs EXCEPT ![0] = @ \cup {sub[p].st}]
            /\ UNCHANGED <<tmp_out_result_, search_result_, next_part_ids_>>
       ELSE /\ tmp_out_result_' = MergeSubResults(tmp_out_result_, search_result_[p])
            /\ search_result_' = [search_result_ EXCEPT ![p] = MovedFrom(@)]
            /\ next_part_ids_' = next_part_ids_ \ {p}
            /\ UNCHANGED <<status_, errs>>
  /\ sub' = [sub EXCEPT ![p] = [pc |-> "merged", st |-> OK]]
  /\ UNCHANGED <<inputVars, runVars, requestVars, idVars>>
  /\ UNCHANGED <<nodata_tasks_count_, regions_, nodata_region_ids_, rpc, nodata_rpc, bf,
                 returned>>
  /\ UNCHANGED <<out_result_>>
  /\ UNCHANGED <<pc, init_status, sub_tasks_count_, fired, final, destroyed>>

\* ConstructResultUnlocked: echo the target vectors, sort every list, resize
\* and store it.
ConstructResultUnlocked ==
  \E sorted \in SortedMaps(tmp_out_result_) :
    /\ out_result_' = StoreResults(EchoResults(out_result_, target_vectors_), sorted, search_param_)
    /\ tmp_out_result_' = MovedFrom(tmp_out_result_)

\* The rest of SubTaskCallback: fetch_sub; the thread that saw 1 builds the
\* result and completes the task; the sub-task is deleted on return.
SubTaskCallbackFinish(p) ==
  /\ sub[p].pc = "merged"
  /\ sub' = [sub EXCEPT ![p] = [pc |-> "done", st |-> OK]]
  /\ sub_tasks_count_' = [sub_tasks_count_ EXCEPT ![0] = @ - 1]
  /\ IF ObservesLast(sub_tasks_count_[0])
       THEN /\ ConstructResultUnlocked
            /\ DoAsyncDone(status_[0])
            /\ Release({0, p})
       ELSE /\ Release({p})
            /\ UNCHANGED <<tmp_out_result_, out_result_, fired, final>>
  /\ pc' = IF pc.at = "insub" /\ pc.part = p THEN NextPartPc(part_ids, p) ELSE pc
  /\ UNCHANGED <<inputVars, runVars, requestVars, idVars, partVars>>
  /\ UNCHANGED <<next_part_ids_>>
  /\ UNCHANGED <<init_status, status_, errs>>

\* The last SubTaskCallback when tmp_out_result_ holds a key that is no
\* index of out_result_: out_result_[idx] is a write outside the vector.
\* What the write does is undefined: it may go unnoticed
\* (SubTaskCallbackFinish) or end the process (here).
OutOfBoundsStore(p) ==
  /\ kind = "search"
  /\ sub[p].pc = "merged"
  /\ ObservesLast(sub_tasks_count_[0])
  /\ \E idx \in DOMAIN tmp_out_result_ : idx \notin 1..Len(target_vectors_)
  /\ sub' = [sub EXCEPT ![p] = [pc |-> "aborted", st |-> OK]]
  /\ sub_tasks_count_' = [sub_tasks_count_ EXCEPT ![0] = @ - 1]
  /\ pc' = AtAborted
  /\ UNCHANGED <<inputVars, runVars, requestVars, idVars, partVars>>
  /\ UNCHANGED <<next_part_ids_, tmp_out_result_, out_result_>>
  /\ UNCHANGED <<init_status, status_, fired, final, destroyed, errs>>

SearchNext ==
  \/ SearchInit
  \/ SearchDoAsync
  \/ \E p \in Parts : PartDoAsync(p)
  \/ \E p \in Parts : PartLaunch(p)
  \/ \E p \in Parts : PartLaunchExit(p)
  \/ \E r \in RegionIds : VectorSearchRpcCallback(r)
  \/ \E r \in RegionIds : PrimaryPushNodata(r)
  \/ \E r \in RegionIds : PrimaryLatch(r)
  \/ \E r \in RegionIds : PrimaryFetchSub(r)
  \/ \E p \in Parts : BruteForceLaunch(p)
  \/ \E p \in Parts : BruteForceLaunchExit(p)
  \/ \E r \in RegionIds : NodataRegionRpcCallback(r)
  \/ \E r \in RegionIds : NodataLatch(r)
  \/ \E r \in RegionIds : NodataFetchSub(r)
  \/ \E p \in Parts : SubTaskCallbackMerge(p)
  \/ \E p \in Parts : SubTaskCallbackFinish(p)

\* ------------------------------------------------ VectorUpsertTask
searchOnlyVars ==
  <<nodata_tasks_count_, regions_, search_result_, nodata_region_ids_, nodata_rpc, bf,
    returned, topVars>>

UpsertInit ==
  /\ kind = "upsert"
  /\ pc.at = "created"
  /\ IF vectors_ = <<>>
       THEN /\ init_status' = InvalidArgument
            /\ UNCHANGED vector_id_to_idx_
       ELSE \/ \E e \in IndexErrors :
                 /\ init_status' = e
                 /\ UNCHANGED vector_id_to_idx_
            \/ IF FirstNonPositive(vectors_) # 0
                 THEN /\ init_status' = InvalidArgument
                      /\ UNCHANGED vector_id_to_idx_
                 ELSE IF FirstDuplicate(vectors_) # 0
                   THEN /\ init_status' = InvalidArgument
                        /\ vector_id_to_idx_' = IdToIdx(vectors_, FirstDuplicate(vectors_) - 1)
                   ELSE /\ init_status' = OK
                        /\ vector_id_to_idx_' = IdToIdx(vectors_, Len(vectors_))
  /\ pc' = IF IsOk(init_status') THEN AtReady ELSE AtRejected
  /\ UNCHANGED <<inputVars, runVars, requestVars, searchOnlyVars>>
  /\ UNCHANGED <<doc_ids_, docs, request_ids, rpc>>
  /\ UNCHANGED <<status_, sub_tasks_count_, fired, final, destroyed, errs>>

\* DoAsync up to the store of sub_tasks_count_: the lookups, the grouping
\* and the construction of one VectorAddRpc per region.
UpsertDoAsync ==
  /\ kind = "upsert"
  /\ pc.at = "ready"
  /\ status_' = [status_ EXCEPT ![0] = OK]
  /\ LET next_batch == DOMAIN vector_id_to_idx_ IN
     IF next_batch = {}
       THEN /\ DoAsyncDone(OK)
            /\ Release({0})
            /\ pc' = AtReturned
            /\ UNCHANGED <<request_ids, sub_tasks_count_>>
       ELSE \/ \E e \in LookupErrors :
                 /\ DoAsyncDone(AbortStatus(e))
                 /\ Release({0})
                 /\ pc' = AtReturned
                 /\ UNCHANGED <<request_ids, sub_tasks_count_>>
            \/ \E lookup \in [next_batch -> IdRegions], order \in Orders(next_batch) :
                 LET reqs == GroupByRegion(order, lookup, 1) IN
                 /\ request_ids' = reqs
                 /\ sub_tasks_count_' =
                      [sub_tasks_count_ EXCEPT ![0] = FanoutCount(Cardinality(PlannedRegions(reqs)))]
                 /\ pc' = AtLaunch
                 /\ UNCHANGED <<fired, final, destroyed>>
  /\ UNCHANGED <<inputVars, runVars, requestVars, searchOnlyVars>>
  /\ UNCHANGED <<vector_id_to_idx_, doc_ids_, docs, rpc>>
  /\ UNCHANGED <<init_status, errs>>

\* controller.AsyncCall of the next controller (the rpcs were built in the
\* walk order of an unordered_map).
IdLaunch ==
  /\ kind \in {"upsert", "batch"}
  /\ pc.at = "launch"
  /\ \E r \in PlannedRegions(request_ids) :
       /\ rpc[r].pc = "none"
       /\ rpc' = [rpc EXCEPT ![r] = [NoRpc EXCEPT !.pc = "inflight"]]
       /\ pc' = IF \A x \in PlannedRegions(request_ids) \ {r} : rpc[x].pc # "none"
                  THEN AtReturned ELSE pc
  /\ UNCHANGED <<inputVars, runVars, requestVars, idVars, searchOnlyVars>>
  /\ UNCHANGED <<init_status, status_, sub_tasks_count_, fired, final, destroyed, errs>>

\* if (sub_tasks_count_.fetch_sub(1) == 1) { tmp = status_; DoAsyncDone(tmp); }
IdFetchSub(r) ==
  /\ kind \in {"upsert", "batch"}
  /\ pc.at # "aborted"
  /\ rpc[r].pc = "merged"
  /\ rpc' = [rpc EXCEPT ![r].pc = "done"]
  /\ sub_tasks_count_' = [sub_tasks_count_ EXCEPT ![0] = @ - 1]
  /\ IF ObservesLast(sub_tasks_count_[0])
       THEN /\ DoAsyncDone(status_[0])
            /\ Release({0})
       ELSE UNCHANGED <<fired, final, destroyed>>
  /\ UNCHANGED <<inputVars, runVars, requestVars, idVars, searchOnlyVars>>
  /\ UNCHANGED <<pc, init_status, status_, errs>>

\* VectorAddRpcCallback up to the end of its write-locked section.
VectorAddRpcCallback(r) ==
  /\ kind = "upsert"
  /\ rpc[r].pc = "inflight"
  /\ \/ \E e \in RpcErrors :
          /\ status_' = [status_ EXCEPT ![0] = LatchFirst(@, e)]
          /\ errs' = [errs EXCEPT ![0] = @ \cup {e}]
          /\ rpc' = [rpc EXCEPT ![r] = [NoRpc EXCEPT !.pc = "merged", !.st = e]]
          /\ UNCHANGED vector_id_to_idx_
     \/ /\ vector_id_to_idx_' = EraseIds(vector_id_to_idx_, request_ids[r])
        /\ rpc' = [rpc EXCEPT ![r] = [NoRpc EXCEPT !.pc = "merged"]]
        /\ UNCHANGED <<status_, errs>>
  /\ UNCHANGED <<inputVars, runVars, requestVars, searchOnlyVars>>
  /\ UNCHANGED <<doc_ids_, docs, request_ids>>
  /\ UNCHANGED <<pc, init_status, sub_tasks_count_, fired, final, destroyed>>

\* ------------------------------------------------ DocumentBatchQueryTask
BatchInit ==
  /\ kind = "batch"
  /\ pc.at = "created"
  /\ IF FirstRejected(doc_ids) # 0
       THEN /\ init_status' = InvalidArgument
            /\ doc_ids_' = {doc_ids[i] : i \in 1..(FirstRejected(doc_ids) - 1)}
       ELSE /\ doc_ids_' = SeqToSet(doc_ids)
            /\ \/ \E e \in IndexErrors : init_status' = e
               \/ init_status' = OK
  /\ pc' = IF IsOk(init_status') THEN AtReady ELSE AtRejected
  /\ UNCHANGED <<inputVars, runVars, requestVars, searchOnlyVars>>
  /\ UNCHANGED <<vector_id_to_idx_, docs, request_ids, rpc>>
  /\ UNCHANGED <<status_, sub_tasks_count_, fired, final, destroyed, errs>>

BatchDoAsync ==
  /\ kind = "batch"
  /\ pc.at = "ready"
  /\ status_' = [status_ EXCEPT ![0] = OK]
  /\ LET next_batch == doc_ids_ IN
     IF next_batch = {}
       THEN /\ DoAsyncDone(OK)
            /\ Release({0})
            /\ pc' = AtReturned
            /\ UNCHANGED <<request_ids, sub_tasks_count_>>
       ELSE \/ \E e \in LookupErrors :
                 /\ DoAsyncDone(AbortStatus(e))
                 /\ Release({0})
                 /\ pc' = AtReturned
                 /\ UNCHANGED <<request_ids, sub_tasks_count_>>
            \/ \E lookup \in [next_batch -> IdRegions] :
                 LET reqs == GroupByRegion(Ascending(next_batch), lookup, 1) IN
                 /\ request_ids' = reqs
                 /\ sub_tasks_count_' =
                      [sub_tasks_count_ EXCEPT ![0] = FanoutCount(Cardinality(PlannedRegions(reqs)))]
                 /\ pc' = AtLaunch
                 /\ UNCHANGED <<fired, final, destroyed>>
  /\ UNCHANGED <<inputVars, runVars, requestVars, searchOnlyVars>>
  /\ UNCHANGED <<vector_id_to_idx_, doc_ids_, docs, rpc>>
  /\ UNCHANGED <<init_status, errs>>

\* DocumentBatchQueryRpcCallback up to the end of its write-locked section,
\* or up to the CHECK_EQ on the sizes of response and request, which aborts
\* the process when they differ.
DocumentBatchQueryRpcCallback(r) ==
  /\ kind = "batch"
  /\ pc.at # "aborted"
  /\ rpc[r].pc = "inflight"
  /\ \/ \E e \in RpcErrors :
          /\ status_' = [status_ EXCEPT ![0] = LatchFirst(@, e)]
          /\ errs' = [errs EXCEPT ![0] = @ \cup {e}]
          /\ rpc' = [rpc EXCEPT ![r] = [NoRpc EXCEPT !.pc = "merged", !.st = e]]
          /\ UNCHANGED <<docs, doc_ids_, returned, pc>>
     \/ \E found \in SUBSET SeqToSet(request_ids[r]) :
          LET documents == ResponseDocuments(request_ids[r], found) IN
          /\ returned' = [returned EXCEPT ![r] = documents]
          /\ docs' = docs \o SurvivingDocs(documents)
          /\ doc_ids_' = doc_ids_ \ SeqToSet(request_ids[r])
          /\ rpc' = [rpc EXCEPT ![r] = [NoRpc EXCEPT !.pc = "merged"]]
          /\ UNCHANGED <<status_, errs, pc>>
     \/ /\ script.mode = "unchecked"
        /\ \E documents \in MismatchedResponses(request_ids[r]) :
             returned' = [returned EXCEPT ![r] = documents]
        /\ pc' = AtAborted
        /\ rpc' = [rpc EXCEPT ![r] = [NoRpc EXCEPT !.pc = "aborted"]]
        /\ UNCHANGED <<docs, doc_ids_, status_, errs>>
  /\ UNCHANGED <<inputVars, runVars, requestVars, topVars>>
  /\ UNCHANGED <<nodata_tasks_count_, regions_, search_result_, nodata_region_ids_, nodata_rpc, bf>>
  /\ UNCHANGED <<vector_id_to_idx_, request_ids>>
  /\ UNCHANGED <<init_status, sub_tasks_count_, fired, final, destroyed>>

IdNext ==
  \/ UpsertInit
  \/ UpsertDoAsync
  \/ BatchInit
  \/ BatchDoAsync
  \/ IdLaunch
  \/ \E r \in RegionIds : VectorAddRpcCallback(r)
  \/ \E r \in RegionIds : DocumentBatchQueryRpcCallback(r)
  \/ \E r \in RegionIds : IdFetchSub(r)

\* ------------------------------------------------ specifications
Init == InitSearch \/ InitUpsert \/ InitBatch
Next == SearchNext \/ IdNext
Spec == Init /\ [][Next]_vars

\* No callback is pending and the caller's thread is out of DoAsync.
Quiescent ==
  /\ pc.at \in {"returned", "rejected"}
  /\ \A r \in RegionIds : rpc[r].pc \in {"none", "done"} /\ nodata_rpc[r].pc \in {"none", "done"}
  /\ \A p \in Parts : sub[p].pc \in {"none", "done"} /\ bf[p].pc \in {"none", "done"}

\* The same search is executed once more, on a fresh task, with the same
\* inputs and against servers that answer as they did the first time.
SecondExecution ==
  /\ kind = "search"
  /\ run = 1
  /\ Quiescent
  /\ fired[0] = 1
  /\ run' = 2
  /\ prev' = [status |-> final[0], out_result |-> out_result_]
  /\ pc' = Fresh.pc
  /\ init_status' = Fresh.init_status
  /\ next_part_ids_' = Fresh.next_part_ids_
  /\ status_' = Fresh.status_
  /\ sub_tasks_count_' = Fresh.sub_tasks_count_
  /\ nodata_tasks_count_' = Fresh.nodata_tasks_count_
  /\ regions_' = Fresh.regions_
  /\ search_result_' = Fresh.search_result_
  /\ nodata_region_ids_' = Fresh.nodata_region_ids_
  /\ rpc' = Fresh.rpc
  /\ nodata_rpc' = Fresh.nodata_rpc
  /\ bf' = Fresh.bf
  /\ sub' = Fresh.sub
  /\ tmp_out_result_' = Fresh.tmp_out_result_
  /\ out_result_' = Fresh.out_result_
  /\ fired' = Fresh.fired
  /\ final' = Fresh.final
  /\ destroyed' = Fresh.destroyed
  /\ returned' = Fresh.returned
  /\ errs' = Fresh.errs
  /\ search_parameter_' = Fresh.search_parameter_
  /\ rpcs_' = Fresh.rpcs_
  /\ nodata_rpcs_' = Fresh.nodata_rpcs_
  /\ UNCHANGED <<inputVars, idVars>>

InitTwoRuns ==
  /\ kind = "search"
  /\ target_vectors_ \in TargetChoices
  /\ search_param_ \in SearchParams
  /\ part_ids \in SUBSET Parts
  /\ vectors_ = <<>>
  /\ doc_ids = <<>>
  /\ script \in Scripts(part_ids)
  /\ InitCommon
  /\ NoConversion

NextTwoRuns == SearchNext \/ SecondExecution
SpecTwoRuns == InitTwoRuns /\ [][NextTwoRuns]_vars

\* A batch query against servers that may break the size contract of the
\* batch-get response.
InitMismatch ==
  /\ kind = "batch"
  /\ doc_ids \in IdInputs
  /\ vectors_ = <<>>
  /\ NoSearchInputs
  /\ script = UncheckedScript
  /\ InitCommon
  /\ NoConversion

NextMismatch ==
  \/ BatchInit
  \/ BatchDoAsync
  \/ IdLaunch
  \/ \E r \in RegionIds : DocumentBatchQueryRpcCallback(r)
  \/ \E r \in RegionIds : IdFetchSub(r)

SpecMismatch == InitMismatch /\ [][NextMismatch]_vars

\* A search against a meta cache that may answer a scan with OK and no
\* region.
InitEmptyScan ==
  /\ kind = "search"
  /\ target_vectors_ \in TargetChoices
  /\ search_param_ \in SearchParams
  /\ part_ids \in SUBSET Parts
  /\ vectors_ = <<>>
  /\ doc_ids = <<>>
  /\ script = EmptyScanScript
  /\ InitCommon
  /\ NoConversion

SpecEmptyScan == InitEmptyScan /\ [][SearchNext]_vars

\* A search against servers that may answer with more batch_results than
\* the request has vectors.
InitOversized ==
  /\ kind = "search"
  /\ target_vectors_ \in TargetChoices
  /\ search_param_ \in SearchParams
  /\ part_ids \in SUBSET Parts
  /\ vectors_ = <<>>
  /\ doc_ids = <<>>
  /\ script = OversizedScript
  /\ InitCommon
  /\ NoConversion

NextOversized == SearchNext \/ \E p \in Parts : OutOfBoundsStore(p)
SpecOversized == InitOversized /\ [][NextOversized]_vars

\* A search in which the unsynchronised push_back may also leave an
\* unwritten slot in nodata_region_ids_.
NextTornPush ==
  \/ SearchNext
  \/ \E r \in RegionIds : PrimaryPushNodataTorn(r)
  \/ \E r \in RegionIds : RegionIndexCheckFails(r)
SpecTornPush == InitSearch /\ [][NextTornPush]_vars

\* ------------------------------------------------ conversions on their own
\* The VectorWithId values a caller may build: any id, a vector of one of
\* the three value types, and scalar data of any of the four scalar types
\* (a ScalarField may hold values in the members its type does not select).
VectorWithIds ==
  LET ValueLists(S) == UNION {[1..n -> S] : n \in 0..MaxValues}
      ScalarFields ==
        [bool_data : BOOLEAN, long_data : {0, 7}, double_data : {0}, string_data : {"", "s"}]
      ScalarValues ==
        [type : {"kBOOL", "kINT64", "kDOUBLE", "kSTRING"}, fields : ValueLists(ScalarFields)]
      Vectors ==
        [dimension : 1..2, value_type : {"Float", "Uint8", "Int8"},
         float_values : ValueLists({1, 2}), binary_values : ValueLists({0, 127, 128, 255})]
  IN [id : Ids, vector : Vectors,
      scalar_data : UNION {[keys -> ScalarValues] : keys \in SUBSET {"key"}}]

InitCodec ==
  /\ kind = "codec"
  /\ vectors_ = <<>>
  /\ doc_ids = <<>>
  /\ NoSearchInputs
  /\ script = FreeScript
  /\ InitCommon
  /\ codec_in \in VectorWithIds
  /\ codec_pb = Unset
  /\ codec_out = Unset

\* FillVectorWithIdPB(&pb, vector_with_id) with the default with_id = true.
EncodeVectorWithId ==
  /\ kind = "codec"
  /\ codec_pb = Unset
  /\ codec_pb' = FillVectorWithIdPB(codec_in, TRUE)
  /\ UNCHANGED <<codec_in, codec_out>>
  /\ UNCHANGED <<callerVars, runVars, requestVars, idVars, partVars, topVars, taskVars>>

\* to_return = InternalVectorIdPB2VectorWithId(pb)
DecodeVectorWithId ==
  /\ kind = "codec"
  /\ codec_pb # Unset
  /\ codec_out = Unset
  /\ codec_out' = InternalVectorIdPB2VectorWithId(codec_pb)
  /\ UNCHANGED <<codec_in, codec_pb>>
  /\ UNCHANGED <<callerVars, runVars, requestVars, idVars, partVars, topVars, taskVars>>

\* The index types and the search parameters a caller may pass to
\* FillInternalSearchParams: any extra_params keys, whatever the index type.
FillInputs ==
  LET VectorIndexTypes == SupportedIndexTypes \cup {"kNoneIndexType"}
      SearchExtraParamTypes == {"kParallelOnQueries", "kNprobe", "kRecallNum", "kEfSearch"}
      ExtraParams == UNION {[keys -> 1..MaxExtra] : keys \in SUBSET SearchExtraParamTypes}
  IN [type : VectorIndexTypes,
      parameter : [topk : {MaxTopk}, enable_range_search : {FALSE},
                   beamwidth : 1..MaxExtra, extra_params : ExtraParams]]

InitFill ==
  /\ kind = "fill"
  /\ vectors_ = <<>>
  /\ doc_ids = <<>>
  /\ NoSearchInputs
  /\ script = FreeScript
  /\ InitCommon
  /\ codec_in \in FillInputs
  /\ codec_pb = Unset
  /\ codec_out = Unset

\* FillInternalSearchParams(&internal_parameter, type, parameter); an index
\* type outside the switch cases ends the process in CHECK(false).
FillSearchParameter ==
  /\ kind = "fill"
  /\ pc.at = "created"
  /\ codec_pb = Unset
  /\ IF codec_in.type \in SupportedIndexTypes
       THEN /\ codec_pb' = FillInternalSearchParams(codec_in.type, codec_in.parameter)
            /\ pc' = pc
       ELSE /\ pc' = AtAborted
            /\ codec_pb' = codec_pb
  /\ UNCHANGED <<codec_in, codec_out>>
  /\ UNCHANGED <<callerVars, runVars, requestVars, idVars, partVars, topVars>>
  /\ UNCHANGED <<init_status, status_, sub_tasks_count_, fired, final, destroyed, errs>>

\* vector_codec::EncodeVectorKey(prefix, partition_id[, vector_id], result):
\* the prefix byte, then each id most significant digit first in a fixed
\* width, so that byte-wise order is numeric order.
EncodeVectorKey(prefix, ids) ==
  LET BigEndian(id) == [i \in 1..4 |-> (id \div (2 ^ (4 - i))) % 2]
      RECURSIVE Digits(_)
      Digits(rest) == IF rest = <<>> THEN <<>> ELSE BigEndian(Head(rest)) \o Digits(Tail(rest))
  IN <<prefix>> \o Digits(ids)

kClientRaw == "r"

\* CHECK(part_count == index_and_part_ids.size() - 1): size() - 1 of an
\* empty vector is no part_count.
PartCountChecked(seperator_ids, index_and_part_ids) ==
  Len(seperator_ids) + 1 = Len(index_and_part_ids) - 1

FillRangePartitionRuleEndAtStart(seperator_ids, index_and_part_ids) ==
  [i \in 1..(Len(seperator_ids) + 1) |->
     LET part_id == index_and_part_ids[i + 1]
     IN [id |-> [entity_id |-> part_id, parent_entity_id |-> index_and_part_ids[1]],
         range |-> [start_key |-> IF i = 1
                                    THEN EncodeVectorKey(kClientRaw, <<part_id>>)
                                    ELSE EncodeVectorKey(kClientRaw,
                                                         <<part_id, seperator_ids[i - 1]>>),
                    end_key |-> EncodeVectorKey(kClientRaw, <<part_id>>)]]]
\* The partitions added to partition_rule, in order (i here is i + 1 of the
\* code's loop).
FillRangePartitionRule(seperator_ids, index_and_part_ids) ==
  [i \in 1..(Len(seperator_ids) + 1) |->
     LET part_id == index_and_part_ids[i + 1]
     IN [id |-> [entity_id |-> part_id, parent_entity_id |-> index_and_part_ids[1]],
         range |-> [start_key |-> IF i = 1
                                    THEN EncodeVectorKey(kClientRaw, <<part_id>>)
                                    ELSE EncodeVectorKey(kClientRaw,
                                                         <<part_id, seperator_ids[i - 1]>>),
                    end_key |-> EncodeVectorKey(kClientRaw, <<part_id + 1>>)]]]

\* The separator ids and the ids handed out for a new index that a caller
\* may pass, of matching sizes or not.
RuleInputs ==
  [seperator_ids : UNION {[1..n -> 1..MaxSeparator] : n \in 0..MaxSeparators},
   index_and_part_ids : UNION {[1..n -> 1..MaxPartId] : n \in 0..(MaxSeparators + 2)}]

InitRule ==
  /\ kind = "rule"
  /\ vectors_ = <<>>
  /\ doc_ids = <<>>
  /\ NoSearchInputs
  /\ script = FreeScript
  /\ InitCommon
  /\ codec_in \in RuleInputs
  /\ codec_pb = Unset
  /\ codec_out = Unset

\* FillRangePartitionRule(&partition_rule, seperator_ids, index_and_part_ids);
\* a failed CHECK ends the process.
FillPartitionRule ==
  /\ kind = "rule"
  /\ pc.at = "created"
  /\ codec_pb = Unset
  /\ IF PartCountChecked(codec_in.seperator_ids, codec_in.index_and_part_ids)
       THEN /\ codec_pb' = FillRangePartitionRule(codec_in.seperator_ids,
                                                  codec_in.index_and_part_ids)
            /\ pc' = pc
       ELSE /\ pc' = AtAborted
            /\ codec_pb' = codec_pb
  /\ UNCHANGED <<codec_in, codec_out>>
  /\ UNCHANGED <<callerVars, runVars, requestVars, idVars, partVars, topVars>>
  /\ UNCHANGED <<init_status, status_, sub_tasks_count_, fired, final, destroyed, errs>>

InitConvert == InitCodec \/ InitFill \/ InitRule
NextConvert ==
  EncodeVectorWithId \/ DecodeVectorWithId \/ FillSearchParameter \/ FillPartitionRule
SpecConvert == InitConvert /\ [][NextConvert]_vars

\* ------------------------------------------------ properties
\* Task t has reached DoAsync.
Started(t) ==
  IF t = 0 THEN pc.at \notin {"created", "ready", "rejected"}
  ELSE regions_[t] # <<>> \/ fired[t] > 0

LaunchedPcs(t) ==
  IF t = 0
    THEN IF kind = "search"
           THEN {sub[p].pc : p \in part_ids}
           ELSE {rpc[r].pc : r \in PlannedRegions(request_ids)}
    ELSE {rpc[r].pc : r \in SeqToSet(regions_[t])} \cup
         (IF bf[t].pc = "none" THEN {}
          ELSE {nodata_rpc[r].pc : r \in SeqToSet(nodata_region_ids_[t])})

\* C2: a step that fires the completion callback of a task either launched
\* nothing, or is the step that takes the task's counter from 1 to 0 (for a
\* part task in its fallback, the fallback counter), and after it every
\* launched callback of the task is past its latch/merge and its fetch_sub.
C2_CompletionByLastCallback ==
  [][\A t \in Tasks :
       fired'[t] > fired[t] =>
         \/ LaunchedPcs(t)' = {}
         \/ /\ LaunchedPcs(t)' = {"done"}
            /\ \/ sub_tasks_count_[t] = 1 /\ sub_tasks_count_'[t] = 0
               \/ /\ t \in Parts
                  /\ nodata_tasks_count_[t] = 1 /\ nodata_tasks_count_'[t] = 0
                  /\ sub_tasks_count_[t] = 0]_vars

\* A search has completed after a partition with two regions completed.
C2_Witness ==
  /\ kind = "search"
  /\ fired[0] = 1
  /\ \E p \in Parts : Len(regions_[p]) = 2 /\ fired[p] = 1 /\ sub[p].pc = "done"

\* C3: once status_ of a task holds an error, no step changes it.
C3_FirstErrorKept ==
  [][\A t \in Tasks : ~IsOk(status_[t]) => status_'[t] = status_[t]]_vars

\* C4: when K >= 1 callbacks of a task failed, the status its completion
\* callback received is one of the K errors.
C4_FinalStatusAmongErrors ==
  \A t \in Tasks : (fired[t] = 1 /\ errs[t] # {}) => final[t] \in errs[t]

\* A search both of whose partitions failed, with different errors.
C4_Witness ==
  /\ kind = "search"
  /\ fired[0] = 1
  /\ Cardinality(errs[0]) = 2

\* The search has completed with OK after building its result lists.
SearchSucceeded ==
  /\ kind = "search"
  /\ fired[0] = 1
  /\ IsOk(final[0])
  /\ part_ids # {}

\* The candidates the regions of all partitions returned for query q.
Candidates(q) ==
  UNION {SeqToSet(returned[r][q]) : r \in {x \in RegionIds : q \in DOMAIN returned[x]}}

\* list holds n of the candidates in C, none twice, in non-descending
\* distance, and no candidate left out is closer than one that is in.
IsClosest(list, C, n) ==
  /\ Len(list) = n
  /\ \A i \in DOMAIN list : list[i] \in C
  /\ \A i, j \in DOMAIN list : list[i] = list[j] => i = j
  /\ \A i, j \in DOMAIN list : i < j => list[i].distance <= list[j].distance
  /\ \A c \in C \ SeqToSet(list) : \A i \in DOMAIN list : list[i].distance <= c.distance

\* The length the code leaves: topk bounds it only when it is positive.
KeptLength(param, available) ==
  IF ~param.enable_range_search /\ param.topk > 0
    THEN Min({param.topk, available}) ELSE available

\* The length min(topk, available) for every topk.
ClaimedLength(param, available) ==
  IF ~param.enable_range_search
    THEN Min({param.topk, available}) ELSE available

C6_ResultLength ==
  SearchSucceeded =>
    \A q \in DOMAIN target_vectors_ :
      Len(out_result_[q].vector_datas) = KeptLength(search_param_, Cardinality(Candidates(q)))

\* C6 as stated: min(topk, available) entries for every topk, 0 included.
C6_AsStated ==
  SearchSucceeded =>
    \A q \in DOMAIN target_vectors_ :
      Len(out_result_[q].vector_datas) = ClaimedLength(search_param_, Cardinality(Candidates(q)))

\* topk = 1 cut a list of two candidates to one.
C6_Witness ==
  /\ SearchSucceeded
  /\ ~search_param_.enable_range_search
  /\ search_param_.topk = 1
  /\ Cardinality(Candidates(1)) = 2
  /\ Len(out_result_[1].vector_datas) = 1

\* The position of candidate c in list.
PositionIn(list, c) == CHOOSE i \in DOMAIN list : list[i] = c

\* C7: when the result is built, candidates of equal distance come out in
\* the order in which they were inserted into the merged list.
C7_TiesInInsertionOrder ==
  [][(kind = "search" /\ fired'[0] > fired[0]) =>
       \A q \in DOMAIN tmp_out_result_ :
         LET vd == out_result_'[q].vector_datas IN
         \A i, j \in DOMAIN vd :
           (i < j /\ vd[i].distance = vd[j].distance) =>
             PositionIn(tmp_out_result_[q], vd[i]) < PositionIn(tmp_out_result_[q], vd[j])]_vars

\* C8: two successful executions of the same search against the same
\* answers produce the same result lists.
C8_SameResultAnyArrivalOrder ==
  (run = 2 /\ kind = "search" /\ fired[0] = 1 /\ IsOk(final[0]) /\ IsOk(prev.status)) =>
    out_result_ = prev.out_result

\* C9: a search that completed with OK holds one SearchResult per target
\* vector, in input order, each with a copy of the vector and a list in
\* non-descending distance.
C9_OneResultPerQuery ==
  (kind = "search" /\ fired[0] = 1 /\ IsOk(final[0])) =>
    /\ Len(out_result_) = Len(target_vectors_)
    /\ \A i \in DOMAIN out_result_ :
         /\ out_result_[i].vector = target_vectors_[i].vector
         /\ \A a, b \in DOMAIN out_result_[i].vector_datas :
              a < b => out_result_[i].vector_datas[a].distance
                         <= out_result_[i].vector_datas[b].distance

\* C10: a search or batch query that completed with a failure exposes no
\* candidate and no document.
C10_FailureWithoutResults ==
  (fired[0] = 1 /\ ~IsOk(final[0])) =>
    /\ kind = "search" => \A i \in DOMAIN out_result_ : out_result_[i].vector_datas = <<>>
    /\ kind = "batch" => docs = <<>>

\* The ids of a request that Init must reject: none, one that is not
\* positive, or one that occurs twice.
InvalidIds(ids) ==
  \/ ids = <<>>
  \/ \E i \in DOMAIN ids : ids[i] <= 0
  \/ \E i, j \in DOMAIN ids : i # j /\ ids[i] = ids[j]

\* The ids the caller passed to the upsert or batch-query task.
InputIds == IF kind = "upsert" THEN vectors_ ELSE doc_ids

\* C11: once Init of an upsert or batch query has returned for an input that
\* is empty, holds an id <= 0 or holds an id twice (and the index was
\* found), it returned InvalidArgument, the task is rejected, no region was
\* planned and no rpc was sent.
C11_InvalidInputRejected ==
  (kind \in {"upsert", "batch"} /\ init_status # "none" /\ init_status \notin IndexErrors
     /\ InvalidIds(InputIds)) =>
    /\ init_status = InvalidArgument
    /\ pc.at = "rejected"
    /\ PlannedRegions(request_ids) = {}
    /\ \A r \in RegionIds : rpc[r].pc = "none"

\* The ids carried by the planned rpcs, over all regions.
PlannedIds == UNION {SeqToSet(request_ids[r]) : r \in RegionIds}

\* C12: once an upsert or batch query has planned its rpcs, the ids they
\* carry are together the validated input ids, no id is in the rpcs of two
\* regions and none is twice in one rpc.
C12_PlanPartitionsInput ==
  (kind \in {"upsert", "batch"} /\ PlannedRegions(request_ids) # {}) =>
    /\ PlannedIds = SeqToSet(InputIds)
    /\ \A r1, r2 \in RegionIds :
         r1 # r2 => SeqToSet(request_ids[r1]) \cap SeqToSet(request_ids[r2]) = {}
    /\ \A r \in RegionIds : \A i, j \in DOMAIN request_ids[r] :
         request_ids[r][i] = request_ids[r][j] => i = j

\* An upsert planned one rpc that carries two ids.
C12_Witness ==
  /\ kind = "upsert"
  /\ \E r \in RegionIds : Len(request_ids[r]) = 2

\* The VectorAddRequest DoAsync builds for region r: context, is_update and
\* one vector per id of the region's list.
VectorAddRequestInsert(r, ids) == [region_id |-> r, is_update |-> FALSE, vectors |-> ids]
VectorAddRequest(r, ids) == [region_id |-> r, is_update |-> TRUE, vectors |-> ids]

\* The DocumentBatchQueryRequest DoAsync builds for region r.
DocumentBatchQueryRequest(r, ids) == [region_id |-> r, document_ids |-> ids]

\* rpcs_: one request per entry of the region -> ids map.
Rpcs ==
  [r \in PlannedRegions(request_ids) |->
     IF kind = "upsert" THEN VectorAddRequest(r, request_ids[r])
     ELSE DocumentBatchQueryRequest(r, request_ids[r])]

\* The regions an rpc of the task has been sent to.
LaunchedRegions == {r \in RegionIds : rpc[r].pc # "none"}

\* C13: an upsert or batch query builds one rpc per distinct region its
\* lookups returned, sends rpcs to these regions only and, once its launch
\* loop is over, to each of them; sub_tasks_count_ starts at that number
\* (it is that number less the callbacks that already decremented it), and
\* every upsert request has is_update = true.
C13_OneRpcPerRegion ==
  (kind \in {"upsert", "batch"} /\ pc.at \in {"launch", "returned"}) =>
    /\ DOMAIN Rpcs = {r \in RegionIds : request_ids[r] # <<>>}
    /\ LaunchedRegions \subseteq DOMAIN Rpcs
    /\ pc.at = "returned" => LaunchedRegions = DOMAIN Rpcs
    /\ sub_tasks_count_[0] + Cardinality({r \in RegionIds : rpc[r].pc = "done"})
         = Cardinality(DOMAIN Rpcs)
    /\ \A r \in DOMAIN Rpcs :
         /\ Rpcs[r].region_id = r
         /\ kind = "upsert" => Rpcs[r].is_update /\ Rpcs[r].vectors = request_ids[r]

\* An upsert of two ids owned by two regions has sent its two rpcs.
C13_Witness ==
  /\ kind = "upsert"
  /\ pc.at = "returned"
  /\ Cardinality(LaunchedRegions) = 2
  /\ \A r \in LaunchedRegions : Len(request_ids[r]) = 1

\* No rpc of part task p, primary or brute-force, has been sent.
NoRpcOfPart(p) ==
  \A r \in RegionIds : PartOf(r) = p => rpc[r].pc = "none" /\ nodata_rpc[r].pc = "none"

\* A task that completed with a lookup or scan error has sent no rpc.
TopologyErrorSentNothing ==
  /\ (kind \in {"upsert", "batch"} /\ fired[0] >= 1 /\ final[0] \in LookupErrors) =>
       LaunchedRegions = {} /\ PlannedRegions(request_ids) = {}
  /\ \A p \in Parts : (fired[p] >= 1 /\ final[p] \in TopoErrors) => NoRpcOfPart(p)

\* C14: the DoAsync step of an upsert or batch query with pending ids that
\* sends nothing is a failed lookup and completes the task with the lookup's
\* error; the DoAsync step of a part task whose scan failed completes the
\* part task with the scan's error; and a task completed with such an error
\* has no rpc, then and later.
C14_TopologyErrorsTerminal ==
  [][/\ (kind \in {"upsert", "batch"} /\ pc.at = "ready" /\ pc'.at = "returned"
           /\ (DOMAIN vector_id_to_idx_) \cup doc_ids_ # {}) =>
          fired'[0] = 1 /\ final'[0] \in LookupErrors
     /\ \A p \in Parts :
          (pc.at = "part" /\ pc.part = p /\ pc'.at = "insub") =>
            /\ fired'[p] = 1 /\ final'[p] \in TopoErrors
            /\ sub'[p] = [pc |-> "called", st |-> final'[p]]
     /\ TopologyErrorSentNothing']_vars

\* The scan of the second partition failed after the first partition's rpcs
\* were sent, and the search completed with the scan's error.
C14_Witness ==
  /\ kind = "search"
  /\ fired[0] = 1
  /\ final[0] \in TopoErrors
  /\ fired[2] = 1 /\ final[2] \in TopoErrors /\ NoRpcOfPart(2)
  /\ \E r \in RegionIds : PartOf(r) = 1 /\ rpc[r].pc = "done"

\* The regions of partition p whose scripted primary answer is
\* EDISKANN_IS_NO_DATA, and those a brute-force rpc was sent to.
NodataAnswering(p) == {r \in SeqToSet(regions_[p]) : script.primary[r].st = NODATA}
BruteForceSent(p) == {r \in RegionIds : PartOf(r) = p /\ nodata_rpc[r].pc # "none"}

\* The candidates part task p holds for query q, and those its regions
\* answered for q.
PartCandidates(p, q) == SeqToSet(MapGet(search_result_[p], q))
PartAnswered(p, q) ==
  UNION {SeqToSet(returned[r][q]) :
           r \in {x \in SeqToSet(regions_[p]) : q \in DOMAIN returned[x]}}

\* C15: when part task p has completed and its regions answered the primary
\* rpc with EDISKANN_IS_NO_DATA or OK only, a brute-force rpc was sent to
\* each of the nodata regions and to no other; if these succeeded, the
\* status is OK and the part task holds the candidates of all its regions.
C15_FallbackLocality ==
  \A p \in Parts :
    (/\ script.mode = "fixed"
     /\ fired[p] = 1 /\ sub[p].pc = "called"
     /\ regions_[p] # <<>>
     /\ \A r \in SeqToSet(regions_[p]) : script.primary[r].st \in {NODATA, OK}) =>
      /\ BruteForceSent(p) = NodataAnswering(p)
      /\ (\A r \in NodataAnswering(p) : IsOk(script.fallback[r].st)) =>
           /\ IsOk(final[p])
           /\ \A q \in DOMAIN target_vectors_ :
                /\ PartCandidates(p, q) = PartAnswered(p, q)
                /\ Len(MapGet(search_result_[p], q)) = Cardinality(PartAnswered(p, q))
                /\ \A r \in SeqToSet(regions_[p]) :
                     q \in DOMAIN returned[r]

\* Every primary rpc of part task p has been answered and its callback is
\* past its fetch_sub.
PrimaryFanInOver(p) ==
  /\ \A r \in SeqToSet(regions_[p]) : rpc[r].pc = "done"
  /\ sub_tasks_count_[p] = 0

\* C16: in a search part task, handling an EDISKANN_IS_NO_DATA answer leaves
\* status_ as it was; a brute-force rpc exists only after all primary
\* callbacks are over; and the step that ends the primary fan-in starts the
\* fallback exactly when status_ is OK and a nodata region is recorded, and
\* otherwise completes the task with status_ (which is a real error
\* whenever a region returned one, and then no brute-force rpc is sent).
C16_PartTaskStateMachine ==
  [][\A p \in Parts :
       /\ \A r \in SeqToSet(regions_[p]) :
            (rpc'[r] # rpc[r] /\ (rpc'[r].pc = "push" \/ rpc[r].pc = "push")) =>
              status_'[p] = status_[p]
       /\ (bf'[p].pc # "none" \/ BruteForceSent(p)' # {}) => PrimaryFanInOver(p)'
       /\ (kind = "search" /\ sub_tasks_count_[p] = 1 /\ sub_tasks_count_'[p] = 0) =>
            /\ errs[p] # {} => ~IsOk(status_[p]) /\ status_[p] \in errs[p]
            /\ IF IsOk(status_[p]) /\ nodata_region_ids_[p] # <<>>
                 THEN bf'[p].pc = "launch" /\ fired'[p] = 0
                 ELSE /\ bf'[p].pc = "none" /\ BruteForceSent(p)' = {}
                      /\ fired'[p] = 1 /\ final'[p] = status_[p]
       /\ (fired'[p] = 1 /\ bf'[p].pc = "none") => BruteForceSent(p)' = {}]_vars

\* One region answered EDISKANN_IS_NO_DATA, the other a real error: the part
\* task completed with the error and sent no brute-force rpc.
C16_Witness ==
  \E p \in Parts :
    /\ fired[p] = 1
    /\ nodata_region_ids_[p] # <<>>
    /\ final[p] \in RpcErrors
    /\ BruteForceSent(p) = {}

\* C17: every brute-force request carries the parameter of the primary
\* request to the same region with the DiskANN sub-message cleared and
\* use_brute_force true, every other field and the query vectors being
\* those of the primary request; and the step that builds the brute-force
\* requests leaves search_parameter_ as it was.
C17_BruteForceRequest ==
  [][/\ \A r \in RegionIds :
          nodata_rpcs_'[r] # NoRequest =>
            LET fallback == nodata_rpcs_'[r]
                primary == rpcs_'[r]
            IN /\ fallback.region_id = r /\ primary.region_id = r
               /\ fallback.parameter.diskann = Unset
               /\ fallback.parameter.use_brute_force
               /\ fallback.parameter.top_n = primary.parameter.top_n
               /\ fallback.parameter.enable_range_search = primary.parameter.enable_range_search
               /\ fallback.parameter.hnsw = primary.parameter.hnsw
               /\ fallback.vector_with_ids = primary.vector_with_ids
               /\ Len(fallback.vector_with_ids) = Len(target_vectors_)
               /\ primary.parameter = search_parameter_'
     /\ nodata_rpcs_' # nodata_rpcs_ => search_parameter_' = search_parameter_]_vars

\* A brute-force request was built for a region of a DiskANN index.
C17_Witness ==
  \E r \in RegionIds :
    /\ nodata_rpcs_[r] # NoRequest
    /\ nodata_rpc[r].pc = "inflight"
    /\ rpcs_[r].parameter.diskann # Unset
    /\ ~rpcs_[r].parameter.use_brute_force

\* The rpcs whose callback has run past its locked section, and among them
\* those that were answered with success (status.ok()) and with a failure.
AnsweredRpcs == {r \in RegionIds : rpc[r].pc \in {"merged", "done"}}
SucceededRpcs == {r \in AnsweredRpcs : IsOk(rpc[r].st)}
FailedRpcs == {r \in AnsweredRpcs : ~IsOk(rpc[r].st)}
IdsCarriedBy(rs) == UNION {SeqToSet(request_ids[r]) : r \in rs}

\* C18: in an upsert that planned its rpcs, the pending set
\* vector_id_to_idx_ holds the input ids less the ids carried by the rpcs
\* that succeeded; once the completion callback has run, it holds the ids
\* carried by the failed rpcs (all input ids when a region lookup failed and
\* no rpc was sent), and it is empty exactly when rpcs were sent and every
\* one of them succeeded.
C18_UpsertPendingSet ==
  (kind = "upsert" /\ pc.at \in {"launch", "returned"}) =>
    /\ DOMAIN vector_id_to_idx_ = SeqToSet(vectors_) \ IdsCarriedBy(SucceededRpcs)
    /\ fired[0] = 1 =>
         /\ final[0] \in LookupErrors => DOMAIN vector_id_to_idx_ = SeqToSet(vectors_)
         /\ final[0] \notin LookupErrors =>
              /\ AnsweredRpcs = PlannedRegions(request_ids)
              /\ DOMAIN vector_id_to_idx_ = IdsCarriedBy(FailedRpcs)
         /\ DOMAIN vector_id_to_idx_ = {} <=>
              (PlannedRegions(request_ids) # {} /\ FailedRpcs = {})

\* An upsert of two ids has completed after one of its two rpcs failed and
\* the other succeeded: one id is still pending.
C18_Witness ==
  /\ kind = "upsert"
  /\ fired[0] = 1
  /\ Cardinality(FailedRpcs) = 1
  /\ Cardinality(SucceededRpcs) = 1
  /\ Cardinality(DOMAIN vector_id_to_idx_) = 1

\* How many documents of `documents` have id d.
CountId(documents, d) == Cardinality({i \in DOMAIN documents : documents[i].id = d})

\* How many documents with id d the responses of all regions hold together.
RECURSIVE CountReturned(_, _)
CountReturned(rs, d) ==
  IF rs = {} THEN 0
  ELSE LET r == CHOOSE x \in rs : TRUE
       IN CountId(returned[r], d) + CountReturned(rs \ {r}, d)

\* C19: once a batch query has completed with OK, out_result_.docs holds
\* every document with id > 0 of the responses of all regions as often as
\* the responses hold it and nothing else (no document with id 0), and the
\* pending set doc_ids_ is empty.
C19_BatchAggregation ==
  (kind = "batch" /\ fired[0] = 1 /\ IsOk(final[0])) =>
    /\ \A d \in Ids \ {0} : CountId(docs, d) = CountReturned(RegionIds, d)
    /\ \A i \in DOMAIN docs : docs[i].id > 0
    /\ doc_ids_ = {}

\* A batch query of two ids owned by two regions has completed with OK; one
\* region returned its document, the other a document with id 0.
C19_Witness ==
  /\ kind = "batch"
  /\ fired[0] = 1
  /\ IsOk(final[0])
  /\ Cardinality({r \in RegionIds : Len(returned[r]) = 1}) = 2
  /\ CountReturned(RegionIds, 0) = 1
  /\ Len(docs) = 1

\* Region r has just been answered with success and a number of documents
\* other than the number of ids of its request.
MismatchedAnswer(r) ==
  /\ kind = "batch"
  /\ rpc[r].pc = "inflight"
  /\ rpc'[r].pc # "inflight"
  /\ returned'[r] # returned[r]
  /\ Len(returned'[r]) # Len(request_ids[r])

\* C20: the callback of a batch-get response whose number of documents
\* differs from the number of requested ids merges the documents with
\* id > 0 that came back, leaves status_ as it is, goes on to its fetch_sub
\* and does not abort the process.
C20_MismatchNotFatal ==
  [][\A r \in RegionIds :
       MismatchedAnswer(r) =>
         /\ pc'.at # "aborted"
         /\ rpc'[r].pc = "merged"
         /\ docs' = docs \o SurvivingDocs(returned'[r])
         /\ status_' = status_]_vars

\* The part tasks the loop of VectorSearchTask::DoAsync has created so far.
CreatedParts ==
  IF pc.at \in {"created", "ready", "rejected"} THEN {}
  ELSE IF pc.at = "returned" THEN part_ids
  ELSE {p \in part_ids : p <= pc.part}

\* The regions of part task p whose primary rpc has been sent.
PrimarySent(p) == {r \in RegionIds : PartOf(r) = p /\ rpc[r].pc # "none"}

\* The launch loop of part task p is over.
PrimaryLaunchOver(p) ==
  /\ regions_[p] # <<>>
  /\ ~(pc.part = p /\ pc.at \in {"part", "launch"})

\* C21: a search creates part tasks for partition ids of the index only,
\* one for each once DoAsync has returned, and none twice; a part task sends
\* primary rpcs to the regions its scan returned only, one to each once its
\* launch loop is over, and never a second one; the request to every region
\* carries the task's search parameter and one vector_with_ids entry per
\* target vector, in input order.
C21_BroadcastFanout ==
  [][kind = "search" =>
       /\ \A p \in Parts : (Started(p)' \/ PrimarySent(p)' # {}) => p \in CreatedParts'
       /\ CreatedParts' \subseteq part_ids
       /\ (pc'.at = "returned" /\ IsOk(init_status')) => \A p \in part_ids : Started(p)'
       /\ \A p \in Parts :
            /\ fired'[p] <= 1
            /\ PrimarySent(p)' \subseteq SeqToSet(regions_'[p])
            /\ PrimaryLaunchOver(p)' => PrimarySent(p)' = SeqToSet(regions_'[p])
            /\ \A i, j \in DOMAIN regions_'[p] : regions_'[p][i] = regions_'[p][j] => i = j
            /\ \A r \in SeqToSet(regions_'[p]) :
                 /\ rpcs_'[r].region_id = r
                 /\ rpcs_'[r].parameter = search_parameter_'
                 /\ Len(rpcs_'[r].vector_with_ids) = Len(target_vectors_)
                 /\ \A i \in DOMAIN target_vectors_ :
                      rpcs_'[r].vector_with_ids[i] = FillVectorWithIdPB(target_vectors_[i], FALSE)
       /\ \A r \in RegionIds :
            /\ (rpc'[r].pc = "inflight" /\ rpc[r].pc # "inflight") => rpc[r].pc = "none"
            /\ rpcs_[r] # NoRequest => rpcs_'[r] = rpcs_[r]]_vars

\* A search with two target vectors over two partitions has sent the
\* primary rpc of each partition's region.
C21_Witness ==
  /\ kind = "search"
  /\ Len(target_vectors_) = 2
  /\ \A p \in Parts : PrimaryLaunchOver(p) /\ PrimarySent(p) # {}

\* An rpc record has just been handed to its controller's AsyncCall.
Sent(before, after) == after.pc = "inflight" /\ before.pc # "inflight"

\* C22: no region is sent a second rpc of the same kind.  A step sends a
\* primary (or upsert, or batch-get) rpc only to a region that was sent none
\* before, and a brute-force rpc only to a region that was sent no
\* brute-force rpc before and whose primary rpc is over; an upsert or a batch
\* query sends no brute-force rpc at all, and nodata_region_ids_ of a part
\* task names regions of that task, none of them twice.
C22_NoRetryButFallback ==
  [][/\ \A r \in RegionIds :
          /\ Sent(rpc[r], rpc'[r]) => rpc[r].pc = "none"
          /\ Sent(nodata_rpc[r], nodata_rpc'[r]) =>
               /\ nodata_rpc[r].pc = "none"
               /\ rpc[r].pc = "done"
               /\ kind = "search"
          /\ (rpc[r].pc # "none" => rpc'[r].pc # "none")
          /\ (nodata_rpc[r].pc # "none" => nodata_rpc'[r].pc # "none")
     /\ \A p \in Parts :
          /\ SeqToSet(nodata_region_ids_'[p]) \subseteq SeqToSet(regions_'[p])
          /\ \A i, j \in DOMAIN nodata_region_ids_'[p] :
               nodata_region_ids_'[p][i] = nodata_region_ids_'[p][j] => i = j]_vars

\* A region of a search has been sent its primary rpc and then its
\* brute-force rpc, and both are over.
C22_Witness ==
  \E r \in RegionIds : rpc[r].pc = "done" /\ nodata_rpc[r].pc = "done"

\* The primary callbacks of part task p that are inside
\* nodata_region_ids_.push_back: they read the vector and have not yet
\* written it.
InsideAppend(p) == {r \in RegionIds : PartOf(r) = p /\ rpc[r].pc = "push"}

\* C23: at any time at most one primary callback of a part task is inside
\* the append to nodata_region_ids_ (as the write lock would ensure).
C23_AppendExclusive ==
  \A p \in Parts : Cardinality(InsideAppend(p)) <= 1

\* list is the beginning of longer.
IsPrefix(list, longer) ==
  Len(list) <= Len(longer) /\ SubSeq(longer, 1, Len(list)) = list

\* The step runs ConstructResultUnlocked (the only code that sorts, resizes
\* and writes out_result_).
ConstructsResult == out_result_' # out_result_

\* Part task p's SubTaskCallback merges in this step.
MergesPart(p) == sub[p].pc = "called" /\ IsOk(sub[p].st) /\ sub'[p].pc = "merged"

\* C24: the step that sorts and truncates is taken when the SubTaskCallback
\* of every partition is past its merge and its fetch_sub (the acting one
\* being the last) and no rpc callback is outstanding; before it a step
\* leaves every list of tmp_out_result_ as it is or appends to it (the whole
\* list of the merged part task), and after it no list is merged any more.
C24_TruncationAfterAllParts ==
  [][kind = "search" =>
       /\ ConstructsResult =>
            /\ sub_tasks_count_[0] = 1
            /\ \A p \in part_ids : sub'[p].pc = "done"
            /\ Cardinality({p \in part_ids : sub[p].pc = "merged"}) = 1
            /\ \A r \in RegionIds :
                 rpc[r].pc \in {"none", "done"} /\ nodata_rpc[r].pc \in {"none", "done"}
       /\ ~ConstructsResult =>
            /\ \A k \in DOMAIN tmp_out_result_ :
                 k \in DOMAIN tmp_out_result_' /\ IsPrefix(tmp_out_result_[k], tmp_out_result_'[k])
            /\ \A p \in Parts : MergesPart(p) =>
                 \A k \in DOMAIN search_result_[p] :
                   /\ k \in DOMAIN tmp_out_result_'
                   /\ tmp_out_result_'[k] = MapGet(tmp_out_result_, k) \o search_result_[p][k]
       /\ fired[0] = 1 => (\A p \in Parts : ~MergesPart(p)) /\ ~ConstructsResult]_vars

\* A search over two partitions completed with OK; each partition returned
\* a candidate for the first query and the result was cut to topk = 1.
C24_Witness ==
  /\ SearchSucceeded
  /\ search_param_.topk = 1 /\ ~search_param_.enable_range_search
  /\ \A p \in Parts : \E r \in SeqToSet(regions_[p]) : 1 \in DOMAIN returned[r] /\ Len(returned[r][1]) >= 1
  /\ Len(out_result_[1].vector_datas) = 1

\* The step runs code of task t that reads or writes members of t: the
\* caller's thread inside DoAsync of t (for a part task up to and including
\* the loop condition after its last AsyncCall), the thread inside
\* SearchByBruteForce of t, or a callback of t.
AccessesMembers(t) ==
  IF t \in Parts
    THEN \/ pc.part = t /\ pc.at \in {"part", "launch", "loopexit"} /\ pc' # pc
         \/ bf[t].pc \in {"launch", "loopexit"} /\ bf'[t] # bf[t]
         \/ \E r \in RegionIds :
              /\ PartOf(r) = t
              /\ \/ rpc[r].pc \in {"inflight", "push", "chk", "merged"} /\ rpc'[r] # rpc[r]
                 \/ nodata_rpc[r].pc \in {"inflight", "chk", "merged"}
                      /\ nodata_rpc'[r] # nodata_rpc[r]
    ELSE \/ pc.at \in {"ready", "launch"} /\ pc.part = 0 /\ pc' # pc
         \/ kind = "search" /\ \E p \in Parts :
              sub[p].pc \in {"called", "merged"} /\ sub'[p] # sub[p]
         \/ kind # "search" /\ \E r \in RegionIds :
              rpc[r].pc \in {"inflight", "merged"} /\ rpc'[r] # rpc[r]

\* C25: no step runs code of a task that reads or writes the task's members
\* after the task was deleted.
C25_NoAccessAfterDelete ==
  [][\A t \in Tasks : AccessesMembers(t) => ~destroyed[t]]_vars

\* The member of a ScalarField its scalar type selects.
TypedData(type, field) ==
  CASE type = "kBOOL" -> field.bool_data
    [] type = "kINT64" -> field.long_data
    [] type = "kDOUBLE" -> field.double_data
    [] type = "kSTRING" -> field.string_data

\* Two scalar values have the same type and, field by field, the same data
\* of that type.
SameScalarValue(a, b) ==
  /\ a.type = b.type
  /\ Len(a.fields) = Len(b.fields)
  /\ \A i \in DOMAIN a.fields : TypedData(a.type, a.fields[i]) = TypedData(a.type, b.fields[i])

\* C26: the VectorWithId decoded from the message FillVectorWithIdPB built
\* (with_id = true) has the id, dimension, value type, float values and
\* binary values of the encoded one, and scalar data with the same keys and,
\* under each key, the same type and the same typed field values.
C26_VectorWithIdRoundTrip ==
  (kind = "codec" /\ codec_out # Unset) =>
    /\ codec_out.id = codec_in.id
    /\ codec_out.vector.dimension = codec_in.vector.dimension
    /\ codec_out.vector.value_type = codec_in.vector.value_type
    /\ codec_out.vector.float_values = codec_in.vector.float_values
    /\ codec_out.vector.binary_values = codec_in.vector.binary_values
    /\ DOMAIN codec_out.scalar_data = DOMAIN codec_in.scalar_data
    /\ \A key \in DOMAIN codec_in.scalar_data :
         SameScalarValue(codec_in.scalar_data[key], codec_out.scalar_data[key])

\* An Int8 vector with the binary value 255 and a string scalar has been
\* encoded (the byte travels as the char -1) and decoded.
C26_Witness ==
  /\ kind = "codec"
  /\ codec_out # Unset
  /\ codec_in.vector.value_type = "Int8"
  /\ codec_in.vector.binary_values = <<255>>
  /\ codec_pb.vector.binary_values = <<(<<-1>>)>>
  /\ "key" \in DOMAIN codec_in.scalar_data
  /\ codec_in.scalar_data["key"].type = "kSTRING"
  /\ Len(codec_in.scalar_data["key"].fields) = 1

\* Nothing of the fan-out exists: no part task ran, no rpc was sent, and
\* the completion callback was not called.
NothingStarted ==
  /\ \A p \in Parts : ~Started(p) /\ sub[p].pc = "none" /\ bf[p].pc = "none"
  /\ \A r \in RegionIds : rpc[r].pc = "none" /\ nodata_rpc[r].pc = "none"
  /\ \A t \in Tasks : fired[t] = 0

\* C27: once Init of a search has returned, it returned InvalidArgument if
\* target_vectors is empty, with no partition id and no search parameter
\* taken from the index; and whenever it returned an error (empty input,
\* index not found, filter expression not compiled) the task is rejected, no
\* part task or rpc exists and the completion callback is not called.
C27_SearchInitErrorsSynchronous ==
  (kind = "search" /\ init_status # "none") =>
    /\ target_vectors_ = <<>> =>
         /\ init_status = InvalidArgument
         /\ next_part_ids_ = {}
         /\ search_parameter_ = NoParameter
    /\ ~IsOk(init_status) =>
         /\ pc.at = "rejected"
         /\ NothingStarted
    /\ init_status \in {OK, InvalidArgument} \cup IndexErrors \cup ExprErrors

\* Init of a search over an index with partitions was given no target
\* vector and returned InvalidArgument.
C27_Witness ==
  /\ kind = "search"
  /\ target_vectors_ = <<>>
  /\ part_ids # {}
  /\ init_status = InvalidArgument
  /\ pc.at = "rejected"

\* How often candidate c is in list.
CountIn(list, c) == Cardinality({i \in DOMAIN list : list[i] = c})

\* How often candidate c is in the answers for query q of the regions in rs
\* that answered with success.
RECURSIVE CountAnswered(_, _, _)
CountAnswered(rs, q, c) ==
  IF rs = {} THEN 0
  ELSE LET r == CHOOSE x \in rs : TRUE
       IN (IF q \in DOMAIN returned[r] THEN CountIn(returned[r][q], c) ELSE 0)
            + CountAnswered(rs \ {r}, q, c)

\* Part task p has completed with OK and its result has not yet been moved
\* into the search task.
PartCompletedOk(p) == sub[p].pc = "called" /\ IsOk(sub[p].st)

\* C28: when a part task has completed with OK, its search_result_ holds
\* for every query every candidate exactly as often as the successful
\* primary and brute-force answers of its regions hold it together.
C28_PartResultIsUnionOfAnswers ==
  \A p \in Parts :
    PartCompletedOk(p) =>
      \A q \in DOMAIN target_vectors_ :
        \A c \in SeqToSet(MapGet(search_result_[p], q)) \cup
                 UNION {SeqToSet(returned[r][q]) :
                          r \in {x \in SeqToSet(regions_[p]) : q \in DOMAIN returned[x]}} :
          CountIn(MapGet(search_result_[p], q), c) = CountAnswered(SeqToSet(regions_[p]), q, c)

\* A part task with two regions completed with OK: one region answered the
\* primary rpc with candidates, the other the brute-force rpc.
C28_Witness ==
  \E p \in Parts :
    /\ PartCompletedOk(p)
    /\ \E r1, r2 \in SeqToSet(regions_[p]) :
         /\ rpc[r1].pc = "done" /\ nodata_rpc[r1].pc = "none" /\ Len(returned[r1]) >= 1
         /\ Len(returned[r1][1]) >= 1
         /\ nodata_rpc[r2].pc = "done" /\ Len(returned[r2]) >= 1
         /\ Len(returned[r2][1]) >= 1
    /\ Len(MapGet(search_result_[p], 1)) >= 2

\* Part task p found no region between the keys of its partition and was
\* told OK: it stored 0 in sub_tasks_count_ and sent no rpc.
ScannedNothing(p) ==
  /\ p \in next_part_ids_
  /\ regions_[p] = <<>>
  /\ IsOk(status_[p])
  /\ fired[p] = 0
  /\ pc.at = "returned" \/ pc.part > p \/ (pc.part = p /\ pc.at = "loopexit")

\* C29: when nothing is left to run, the search task that reached DoAsync
\* and every part task it ran have reached their completion callback, also
\* a part task that sent no rpc because its scan found no region.
C29_CompletesWithoutRpcs ==
  (kind = "search" /\ Started(0) /\ ~ENABLED SearchNext) =>
     /\ fired[0] = 1
     /\ \A p \in next_part_ids_ : fired[p] = 1

\* Nothing is left to run, one part task found no region and neither it
\* nor the search task has completed.
C29_Stuck ==
  /\ kind = "search"
  /\ ~ENABLED SearchNext
  /\ \E p \in Parts : ScannedNothing(p)
  /\ fired[0] = 0

\* The sub-messages of the internal search parameter.
SubParameters == {"flat", "ivf_flat", "ivf_pq", "hnsw", "diskann", "binary_flat", "binary_ivf_flat"}

\* The sub-message an index kind selects, if any.
SelectedSubParameter(type) ==
  CASE type = "kFlat" -> {"flat"}
    [] type = "kIvfFlat" -> {"ivf_flat"}
    [] type = "kIvfPq" -> {"ivf_pq"}
    [] type = "kHnsw" -> {"hnsw"}
    [] type = "kDiskAnn" -> {"diskann"}
    [] type = "kBinaryFlat" -> {"binary_flat"}
    [] type = "kBinaryIvfFlat" -> {"binary_ivf_flat"}
    [] type = "kBruteForce" -> {}

\* The extra_params keys that apply to an index kind.
ApplicableKeys(type) ==
  CASE type \in {"kFlat", "kBinaryFlat"} -> {"kParallelOnQueries"}
    [] type \in {"kIvfFlat", "kBinaryIvfFlat"} -> {"kNprobe", "kParallelOnQueries"}
    [] type = "kIvfPq" -> {"kNprobe", "kParallelOnQueries", "kRecallNum"}
    [] type = "kHnsw" -> {"kEfSearch"}
    [] type \in {"kDiskAnn", "kBruteForce"} -> {}

\* The field of a sub-message an extra_params key is written to.
FieldOfKey(key) ==
  CASE key = "kParallelOnQueries" -> "parallel_on_queries"
    [] key = "kNprobe" -> "nprobe"
    [] key = "kRecallNum" -> "recall_num"
    [] key = "kEfSearch" -> "efsearch"

\* FillInternalSearchParams has been applied to an index kind of the switch.
Filled == kind = "fill" /\ codec_pb # Unset

\* C30: FillInternalSearchParams makes exactly the sub-parameter of the
\* index kind present (none for BruteForce), writes to it the value of every
\* applicable extra_params key that is given and nothing for a key that is
\* not given, takes beamwidth for DiskAnn, and ignores every key that does
\* not apply to the kind: the result is the same as without that key, and it
\* is no error.
C30_SubParameterByIndexKind ==
  /\ (kind = "fill" /\ codec_in.type \in SupportedIndexTypes) => pc.at # "aborted"
  /\ Filled =>
       LET type == codec_in.type
           parameter == codec_in.parameter
           given == DOMAIN parameter.extra_params
       IN /\ \A f \in SubParameters : codec_pb[f] # Unset <=> f \in SelectedSubParameter(type)
          /\ \A f \in SelectedSubParameter(type) :
               LET m == codec_pb[f][1]
               IN /\ DOMAIN m = {FieldOfKey(k) : k \in ApplicableKeys(type)} \cup
                                (IF type = "kDiskAnn" THEN {"beamwidth"} ELSE {})
                  /\ \A k \in ApplicableKeys(type) :
                       m[FieldOfKey(k)] = IF k \in given THEN parameter.extra_params[k] ELSE 0
                  /\ type = "kDiskAnn" => m.beamwidth = parameter.beamwidth
          /\ codec_pb.top_n = parameter.topk
          /\ \A k \in given \ ApplicableKeys(type) :
               codec_pb = FillInternalSearchParams(type,
                            [parameter EXCEPT !.extra_params =
                               [x \in given \ {k} |-> parameter.extra_params[x]]])

\* An Hnsw index searched with efsearch and with nprobe, which does not
\* apply to it: efsearch is written, nprobe is not.
C30_Witness ==
  /\ Filled
  /\ codec_in.type = "kHnsw"
  /\ {"kEfSearch", "kNprobe"} \subseteq DOMAIN codec_in.parameter.extra_params
  /\ codec_in.parameter.extra_params["kEfSearch"] = 2
  /\ codec_pb.hnsw = <<[efsearch |-> 2]>>
  /\ codec_pb.ivf_flat = Unset

\* C31: building the internal search parameter for an index kind outside
\* the supported set never ends the process: the parameter-building step
\* is never left in the aborted position.
C31_UnsupportedKindIsTypedError ==
  (kind = "fill" /\ codec_in.type \notin SupportedIndexTypes) => pc.at # "aborted"

\* Byte-wise order of two keys: a is before b.
LexLess(a, b) ==
  \/ /\ Len(a) < Len(b)
     /\ \A i \in 1..Len(a) : a[i] = b[i]
  \/ \E i \in 1..Len(a) :
       /\ i <= Len(b)
       /\ \A j \in 1..(i - 1) : a[j] = b[j]
       /\ a[i] # b[i]
       /\ a[i] < b[i]

\* FillRangePartitionRule has run on the inputs.
RuleFilled == kind = "rule" /\ codec_pb # Unset

\* C32: for n separator ids and n+2 entries FillRangePartitionRule adds
\* exactly n+1 partitions; partition i ends at encode(raw, part_id_i + 1),
\* starts at encode(raw, part_id_i) for the first and at
\* encode(raw, part_id_i, separator[i-1]) for the others, so that start is
\* before end and not before the partition's own prefix; for sizes in any
\* other relation the precondition check fails and nothing is added.
C32_RangePartitionRule ==
  kind = "rule" =>
    LET seps == codec_in.seperator_ids
        entries == codec_in.index_and_part_ids
        n == Len(seps)
    IN /\ (pc.at = "aborted") => (Len(entries) # n + 2 /\ codec_pb = Unset)
       /\ (pc.at = "created" /\ Len(entries) # n + 2) => codec_pb = Unset
       /\ RuleFilled =>
            /\ Len(entries) = n + 2
            /\ Len(codec_pb) = n + 1
            /\ \A i \in 1..(n + 1) :
                 LET part_id == entries[i + 1]
                     range == codec_pb[i].range
                 IN /\ codec_pb[i].id.entity_id = part_id
                    /\ range.end_key = EncodeVectorKey(kClientRaw, <<part_id + 1>>)
                    /\ range.start_key =
                         IF i = 1 THEN EncodeVectorKey(kClientRaw, <<part_id>>)
                         ELSE EncodeVectorKey(kClientRaw, <<part_id, seps[i - 1]>>)
                    /\ LexLess(range.start_key, range.end_key)
                    /\ ~LexLess(range.start_key, EncodeVectorKey(kClientRaw, <<part_id>>))

\* Two separators and four entries gave three partitions, the last one
\* starting at its separator.
C32_Witness ==
  /\ RuleFilled
  /\ Len(codec_in.seperator_ids) = 2
  /\ Len(codec_pb) = 3
  /\ codec_pb[3].range.start_key =
       EncodeVectorKey(kClientRaw, <<codec_in.index_and_part_ids[4], codec_in.seperator_ids[2]>>)
  /\ LexLess(codec_pb[3].range.start_key, codec_pb[3].range.end_key)

\* The rpcs and part tasks a counter stands for: planned by the task, and
\* those of them whose launch has happened.
PlannedPrimary(p) == SeqToSet(regions_[p])
PlannedFallback(p) == IF bf[p].pc = "none" THEN {} ELSE SeqToSet(nodata_region_ids_[p])
PlannedSubTasks == IF kind = "search" /\ Started(0) THEN part_ids ELSE {}
PlannedIdRpcs ==
  IF kind \in {"upsert", "batch"} /\ pc.at \in {"launch", "returned"}
    THEN PlannedRegions(request_ids) ELSE {}

\* The counters count what is launched and has not decremented.
CountersCountLaunched ==
  /\ \A p \in Parts :
       /\ sub_tasks_count_[p] =
            Cardinality({r \in PlannedPrimary(p) : rpc[r].pc \notin {"none", "done"}})
       /\ nodata_tasks_count_[p] =
            Cardinality({r \in PlannedFallback(p) : nodata_rpc[r].pc \notin {"none", "done"}})
  /\ kind = "search" =>
       sub_tasks_count_[0] =
         Cardinality({p \in PlannedSubTasks :
                        sub[p].pc # "done" /\ (pc.at = "returned" \/ pc.part >= p)})
  /\ kind \in {"upsert", "batch"} =>
       sub_tasks_count_[0] =
         Cardinality({r \in PlannedIdRpcs : rpc[r].pc \notin {"none", "done"}})

\* The counters count what is planned and has not decremented.
CountersCountPlanned ==
  /\ \A p \in Parts :
       /\ sub_tasks_count_[p] = Cardinality({r \in PlannedPrimary(p) : rpc[r].pc # "done"})
       /\ nodata_tasks_count_[p] =
            Cardinality({r \in PlannedFallback(p) : nodata_rpc[r].pc # "done"})
  /\ kind = "search" =>
       sub_tasks_count_[0] = Cardinality({p \in PlannedSubTasks : sub[p].pc # "done"})
  /\ kind \in {"upsert", "batch"} =>
       sub_tasks_count_[0] = Cardinality({r \in PlannedIdRpcs : rpc[r].pc # "done"})

CountersNotNegative ==
  /\ \A t \in Tasks : sub_tasks_count_[t] >= 0
  /\ \A p \in Parts : nodata_tasks_count_[p] >= 0

\* C33 as stated: in every reachable state each fan-in counter is the
\* number of launched rpcs or part tasks whose callback has not yet
\* decremented it, and no counter is below zero.
C33_AsStated == kind \in {"search", "upsert", "batch"} => CountersCountLaunched /\ CountersNotNegative

\* C33: in every reachable state each fan-in counter is the number of rpcs
\* or part tasks the task planned (launched already or still to be launched
\* by its running launch loop) whose callback has not yet decremented it;
\* so it is set before the first launch, goes down by one per callback and
\* is never below zero.
C33_FanInCounter == kind \in {"search", "upsert", "batch"} => CountersCountPlanned /\ CountersNotNegative

\* A part task with two regions: one callback has decremented, the other
\* rpc is launched and has not; the counter is 1.
C33_Witness ==
  \E p \in Parts : \E r1, r2 \in PlannedPrimary(p) :
    /\ rpc[r1].pc = "done"
    /\ rpc[r2].pc = "inflight"
    /\ sub_tasks_count_[p] = 1

\* Region r has answered a search rpc, primary or brute-force, with success.
RegionSucceeded(r) == returned[r] # <<>>

\* C34, part tasks: a part task completes with OK only if every region of
\* its scan answered with success, the primary rpc or, after a primary
\* EDISKANN_IS_NO_DATA, the brute-force rpc.
PartOkOnlyIfAllSucceeded ==
  \A p \in Parts :
    (kind = "search" /\ fired[p] >= 1 /\ IsOk(final[p]) /\ sub[p].pc = "called") =>
       \A r \in SeqToSet(regions_[p]) : RegionSucceeded(r)

\* An error other than a primary EDISKANN_IS_NO_DATA makes the completion
\* status not OK.
AnyErrorFails ==
  \A t \in Tasks : (fired[t] >= 1 /\ errs[t] # {}) => ~IsOk(final[t])

\* The search task completes with OK if and only if every part task did;
\* an upsert or batch query completes with OK only if every rpc succeeded.
TopOkIffPartsOk ==
  /\ (kind = "search" /\ fired[0] >= 1 /\ part_ids # {}) =>
       (IsOk(final[0]) <=> \A p \in part_ids : IsOk(final[p]))
  /\ (kind \in {"upsert", "batch"} /\ fired[0] >= 1 /\ IsOk(final[0])) =>
       \A r \in PlannedRegions(request_ids) : rpc[r].pc = "done" /\ IsOk(rpc[r].st)

\* C34: the completion callback gets OK only if every rpc of the task
\* succeeded (a primary EDISKANN_IS_NO_DATA counting as success only with a
\* successful brute-force rpc to the same region), any other rpc error
\* makes the completion status not OK, and the search task gets OK exactly
\* when every part task completed with OK.
C34_OkOnlyIfAllSucceeded == PartOkOnlyIfAllSucceeded /\ AnyErrorFails /\ TopOkIffPartsOk

\* The indexes of out_result_: one per target vector.
QueryIndexes == 1..Len(target_vectors_)

\* C35: every query index under which a part task's search_result_ or the
\* search task's merged map holds candidates is an index of a target
\* vector, so that the store into out_result_ never leaves the vector,
\* whatever the servers answer.
C35_QueryIndexInRange ==
  kind = "search" =>
    /\ \A p \in Parts : DOMAIN search_result_[p] \subseteq QueryIndexes
    /\ DOMAIN tmp_out_result_ \subseteq QueryIndexes
    /\ pc.at # "aborted"

\* Part task p went into the fallback phase.
FellBack(p) == bf[p].pc # "none"

\* C36: once a part task is in the fallback phase, every failure of a
\* brute-force rpc, EDISKANN_IS_NO_DATA included, counts as an error: no
\* region is sent a second brute-force rpc and the counter of the phase is
\* not stored again, and the part task completes only when every brute-force
\* callback has been received, with one of the errors these callbacks got if
\* there is one and with OK otherwise.
C36_FallbackFailureIsFinal ==
  [][\A p \in Parts :
       /\ (FellBack(p) /\ nodata_tasks_count_'[p] # nodata_tasks_count_[p]) =>
            nodata_tasks_count_'[p] = nodata_tasks_count_[p] - 1
       /\ \A r \in SeqToSet(regions_[p]) :
            (nodata_rpc[r].pc # "none" /\ nodata_rpc'[r].pc = "inflight") =>
               nodata_rpc[r].pc = "inflight"
       /\ (FellBack(p) /\ fired'[p] > fired[p]) =>
            /\ \A r \in SeqToSet(nodata_region_ids_[p]) : nodata_rpc'[r].pc = "done"
            /\ nodata_tasks_count_'[p] = 0
            /\ IF errs'[p] = {} THEN IsOk(final'[p]) ELSE final'[p] \in errs'[p]
            /\ bf'[p] = bf[p]]_vars

\* A part task whose brute-force rpc was answered EDISKANN_IS_NO_DATA again
\* has completed with that error.
C36_Witness ==
  \E p \in Parts :
    /\ FellBack(p)
    /\ fired[p] = 1
    /\ final[p] = NODATA
    /\ \E r \in SeqToSet(nodata_region_ids_[p]) : nodata_rpc[r].pc = "done"

\* The CHECK of SearchByBruteForce: every entry of nodata_region_ids_ has an
\* index, and the index is that of the region with this id.
NodataIdsHaveRegions ==
  \A p \in Parts : \A id \in SeqToSet(nodata_region_ids_[p]) :
    /\ id \in DOMAIN RegionIdToRegionIndex(regions_[p])
    /\ regions_[p][RegionIdToRegionIndex(regions_[p])[id]] = id

\* The CHECK of the upsert and batch query DoAsync: whatever the lookups
\* answer for the pending ids, every region with a group of ids is a region
\* a lookup returned.
GroupsHaveRegions ==
  (kind \in {"upsert", "batch"} /\ pc.at = "ready") =>
    LET next_batch == (DOMAIN vector_id_to_idx_) \cup doc_ids_ IN
    \A lookup \in [next_batch -> IdRegions] : \A order \in Orders(next_batch) :
      PlannedRegions(GroupByRegion(order, lookup, 1)) \subseteq {lookup[id] : id \in next_batch}

\* C37: no CHECK of the fan-out code fails: every region id in
\* nodata_region_ids_ has an index pointing at its region, every region with
\* a group of ids in an upsert or batch query plan has a region handle, a
\* query index that is new to the merged map is inserted with the part
\* task's list, and the process is never ended by a CHECK.
C37_ChecksNeverFail ==
  [][/\ NodataIdsHaveRegions'
     /\ GroupsHaveRegions'
     /\ kind = "search" => pc'.at # "aborted"
     /\ \A p \in Parts :
          (sub[p].pc = "called" /\ sub'[p].pc = "merged" /\ IsOk(sub[p].st)) =>
             \A k \in (DOMAIN search_result_[p]) \ (DOMAIN tmp_out_result_) :
               /\ k \in DOMAIN tmp_out_result_'
               /\ tmp_out_result_'[k] = search_result_[p][k]]_vars

====
